---- MODULE Spec2Model ----
(***************************************************************************)
(* The guest-message pipeline of the AI concierge: the emotion classifier, *)
(* the service router, the response synthesizer, the escalation policy and *)
(* the bounded per-guest conversation memory, with the three HTTP handlers *)
(* that read and write the memory.                                         *)
(*                                                                         *)
(* A text is a sequence of one-character strings, so that lower-casing and *)
(* substring search are computed the way Python computes them.             *)
(***************************************************************************)
EXTENDS Integers, Sequences, FiniteSets, TLC

Min(a, b) == IF a < b THEN a ELSE b

Max(a, b) == IF a > b THEN a ELSE b

-----------------------------------------------------------------------------
(* Python string and sequence primitives                                   *)

UpperCase ==
    <<"A","B","C","D","E","F","G","H","I","J","K","L","M",
      "N","O","P","Q","R","S","T","U","V","W","X","Y","Z">>

LowerCase ==
    <<"a","b","c","d","e","f","g","h","i","j","k","l","m",
      "n","o","p","q","r","s","t","u","v","w","x","y","z">>

\* str.lower() on one character
lower_char(c) ==
    IF \E i \in 1..26 : UpperCase[i] = c
    THEN LowerCase[CHOOSE i \in 1..26 : UpperCase[i] = c]
    ELSE c

\* str.lower()
lower(s) == [i \in 1..Len(s) |-> lower_char(s[i])]

\* Python's `word in s` on strings: substring search
Contains(word, s) ==
    \E i \in 0..(Len(s) - Len(word)) : SubSeq(s, i + 1, i + Len(word)) = word

\* any(word in s for word in words)
AnyWordIn(words, s) == \E k \in 1..Len(words) : Contains(words[k], s)

\* the index Python's s[start:] begins at (0-based), for any integer start
PyStart(len, start) == IF start < 0 THEN Max(len + start, 0) ELSE Min(start, len)

\* Python's s[start:]
PySliceFrom(s, start) == SubSeq(s, PyStart(Len(s), start) + 1, Len(s))

\* Python's s[:stop] for stop >= 0
PySliceTo(s, stop) == SubSeq(s, 1, Min(stop, Len(s)))

\* the outcome of a statement that may raise
Ok(v) == [raised |-> FALSE, value |-> v]

Raise(e) == [raised |-> TRUE, value |-> e]

\* dict.get(k, default)
PyGet(d, k, default) == IF k \in DOMAIN d THEN d[k] ELSE default

\* d[k] = v
PySet(d, k, v) == [x \in (DOMAIN d) \cup {k} |-> IF x = k THEN v ELSE d[x]]

\* d[k], which raises KeyError for a missing key
PyIndex(d, k) == IF k \in DOMAIN d THEN Ok(d[k]) ELSE Raise("KeyError")

\* del d[k], which raises KeyError for a missing key
PyDel(d, k) ==
    IF k \in DOMAIN d THEN Ok([x \in (DOMAIN d) \ {k} |-> d[x]]) ELSE Raise("KeyError")

-----------------------------------------------------------------------------
(* Service router: ConciergeAI._classify_service_type                      *)

ServiceTypeValues ==
    {"room_service", "housekeeping", "concierge", "dining", "wellness",
     "transportation", "entertainment", "business", "emergency", "general"}

\* concierge_ai_simple.py:124: room, housekeeping, cleaning, amenities, temperature, lighting
room_service_words ==
    << <<"r","o","o","m">>,
       <<"h","o","u","s","e","k","e","e","p","i","n","g">>,
       <<"c","l","e","a","n","i","n","g">>,
       <<"a","m","e","n","i","t","i","e","s">>,
       <<"t","e","m","p","e","r","a","t","u","r","e">>,
       <<"l","i","g","h","t","i","n","g">> >>

\* concierge_ai_simple.py:128: food, dining, restaurant, menu, dinner, lunch, breakfast, eat
dining_words ==
    << <<"f","o","o","d">>,
       <<"d","i","n","i","n","g">>,
       <<"r","e","s","t","a","u","r","a","n","t">>,
       <<"m","e","n","u">>,
       <<"d","i","n","n","e","r">>,
       <<"l","u","n","c","h">>,
       <<"b","r","e","a","k","f","a","s","t">>,
       <<"e","a","t">> >>

\* concierge_ai_simple.py:132: spa, wellness, massage, fitness, gym, relax, meditation, yoga
wellness_words ==
    << <<"s","p","a">>,
       <<"w","e","l","l","n","e","s","s">>,
       <<"m","a","s","s","a","g","e">>,
       <<"f","i","t","n","e","s","s">>,
       <<"g","y","m">>,
       <<"r","e","l","a","x">>,
       <<"m","e","d","i","t","a","t","i","o","n">>,
       <<"y","o","g","a">> >>

\* concierge_ai_simple.py:136: transport, taxi, uber, airport, shuttle, car, ride
transportation_words ==
    << <<"t","r","a","n","s","p","o","r","t">>,
       <<"t","a","x","i">>,
       <<"u","b","e","r">>,
       <<"a","i","r","p","o","r","t">>,
       <<"s","h","u","t","t","l","e">>,
       <<"c","a","r">>,
       <<"r","i","d","e">> >>

\* concierge_ai_simple.py:140: entertainment, show, movie, theater, concert, event, fun
entertainment_words ==
    << <<"e","n","t","e","r","t","a","i","n","m","e","n","t">>,
       <<"s","h","o","w">>,
       <<"m","o","v","i","e">>,
       <<"t","h","e","a","t","e","r">>,
       <<"c","o","n","c","e","r","t">>,
       <<"e","v","e","n","t">>,
       <<"f","u","n">> >>

\* concierge_ai_simple.py:144: business, meeting, conference, work, office, presentation
business_words ==
    << <<"b","u","s","i","n","e","s","s">>,
       <<"m","e","e","t","i","n","g">>,
       <<"c","o","n","f","e","r","e","n","c","e">>,
       <<"w","o","r","k">>,
       <<"o","f","f","i","c","e">>,
       <<"p","r","e","s","e","n","t","a","t","i","o","n">> >>

\* concierge_ai_simple.py:148: emergency, help, urgent, problem, issue, assistance
emergency_words ==
    << <<"e","m","e","r","g","e","n","c","y">>,
       <<"h","e","l","p">>,
       <<"u","r","g","e","n","t">>,
       <<"p","r","o","b","l","e","m">>,
       <<"i","s","s","u","e">>,
       <<"a","s","s","i","s","t","a","n","c","e">> >>


\* the router with its business branch missing
ClassifyServiceType_NoBusiness(message) ==
    LET message_lower == lower(message) IN
    IF AnyWordIn(room_service_words, message_lower) THEN "room_service"
    ELSE IF AnyWordIn(dining_words, message_lower) THEN "dining"
    ELSE IF AnyWordIn(wellness_words, message_lower) THEN "wellness"
    ELSE IF AnyWordIn(transportation_words, message_lower) THEN "transportation"
    ELSE IF AnyWordIn(entertainment_words, message_lower) THEN "entertainment"
    ELSE IF AnyWordIn(emergency_words, message_lower) THEN "emergency"
    ELSE "general"

\* the router with the emergency branch tested first
ClassifyServiceType_EmergencyFirst(message) ==
    LET message_lower == lower(message) IN
    IF AnyWordIn(emergency_words, message_lower) THEN "emergency"
    ELSE IF AnyWordIn(room_service_words, message_lower) THEN "room_service"
    ELSE IF AnyWordIn(dining_words, message_lower) THEN "dining"
    ELSE IF AnyWordIn(wellness_words, message_lower) THEN "wellness"
    ELSE IF AnyWordIn(transportation_words, message_lower) THEN "transportation"
    ELSE IF AnyWordIn(entertainment_words, message_lower) THEN "entertainment"
    ELSE IF AnyWordIn(business_words, message_lower) THEN "business"
    ELSE "general"

ClassifyServiceType(message) ==
    LET message_lower == lower(message) IN
    IF AnyWordIn(room_service_words, message_lower) THEN "room_service"
    ELSE IF AnyWordIn(dining_words, message_lower) THEN "dining"
    ELSE IF AnyWordIn(wellness_words, message_lower) THEN "wellness"
    ELSE IF AnyWordIn(transportation_words, message_lower) THEN "transportation"
    ELSE IF AnyWordIn(entertainment_words, message_lower) THEN "entertainment"
    ELSE IF AnyWordIn(business_words, message_lower) THEN "business"
    ELSE IF AnyWordIn(emergency_words, message_lower) THEN "emergency"
    ELSE "general"

-----------------------------------------------------------------------------
(* Emotion classifier: EmotionAI.detect_text_emotion                       *)

\* emotion_ai_simple.py:51: happy, excited, great, amazing, wonderful, fantastic, love, enjoy
joy_keywords ==
    << <<"h","a","p","p","y">>,
       <<"e","x","c","i","t","e","d">>,
       <<"g","r","e","a","t">>,
       <<"a","m","a","z","i","n","g">>,
       <<"w","o","n","d","e","r","f","u","l">>,
       <<"f","a","n","t","a","s","t","i","c">>,
       <<"l","o","v","e">>,
       <<"e","n","j","o","y">> >>

\* emotion_ai_simple.py:52: sad, depressed, down, upset, disappointed, hurt, lonely
sadness_keywords ==
    << <<"s","a","d">>,
       <<"d","e","p","r","e","s","s","e","d">>,
       <<"d","o","w","n">>,
       <<"u","p","s","e","t">>,
       <<"d","i","s","a","p","p","o","i","n","t","e","d">>,
       <<"h","u","r","t">>,
       <<"l","o","n","e","l","y">> >>

\* emotion_ai_simple.py:53: angry, mad, furious, annoyed, irritated, frustrated, rage
anger_keywords ==
    << <<"a","n","g","r","y">>,
       <<"m","a","d">>,
       <<"f","u","r","i","o","u","s">>,
       <<"a","n","n","o","y","e","d">>,
       <<"i","r","r","i","t","a","t","e","d">>,
       <<"f","r","u","s","t","r","a","t","e","d">>,
       <<"r","a","g","e">> >>

\* emotion_ai_simple.py:54: scared, afraid, worried, anxious, nervous, terrified, panic
fear_keywords ==
    << <<"s","c","a","r","e","d">>,
       <<"a","f","r","a","i","d">>,
       <<"w","o","r","r","i","e","d">>,
       <<"a","n","x","i","o","u","s">>,
       <<"n","e","r","v","o","u","s">>,
       <<"t","e","r","r","i","f","i","e","d">>,
       <<"p","a","n","i","c">> >>

\* emotion_ai_simple.py:55: stressed, overwhelmed, pressure, tense, burned out, exhausted
stress_keywords ==
    << <<"s","t","r","e","s","s","e","d">>,
       <<"o","v","e","r","w","h","e","l","m","e","d">>,
       <<"p","r","e","s","s","u","r","e">>,
       <<"t","e","n","s","e">>,
       <<"b","u","r","n","e","d"," ","o","u","t">>,
       <<"e","x","h","a","u","s","t","e","d">> >>

\* emotion_ai_simple.py:56: excited, thrilled, pumped, energized, enthusiastic, eager
excitement_keywords ==
    << <<"e","x","c","i","t","e","d">>,
       <<"t","h","r","i","l","l","e","d">>,
       <<"p","u","m","p","e","d">>,
       <<"e","n","e","r","g","i","z","e","d">>,
       <<"e","n","t","h","u","s","i","a","s","t","i","c">>,
       <<"e","a","g","e","r">> >>


\* the dict with the keywords of FEAR filed under ANXIETY
emotion_keywords_Anxiety ==
    << <<"joy", joy_keywords>>, <<"sadness", sadness_keywords>>,
       <<"anger", anger_keywords>>, <<"anxiety", fear_keywords>>,
       <<"stress", stress_keywords>>, <<"excitement", excitement_keywords>> >>

\* the dict emotion_keywords in its insertion order
emotion_keywords ==
    << <<"joy", joy_keywords>>, <<"sadness", sadness_keywords>>,
       <<"anger", anger_keywords>>, <<"fear", fear_keywords>>,
       <<"stress", stress_keywords>>, <<"excitement", excitement_keywords>> >>

EmotionTypeValues ==
    {"joy", "sadness", "anger", "fear", "surprise", "disgust", "neutral",
     "stress", "excitement", "contentment", "anxiety", "frustration"}

\* Optional[...] = None
None == [none |-> TRUE]

IsNone(x) == "none" \in DOMAIN x

\* sum(1 for keyword in keywords if keyword in text_lower)
KeywordScore(keywords, text_lower) ==
    Cardinality({k \in 1..Len(keywords) : Contains(keywords[k], text_lower)})

\* the dict emotion_scores, keyed by position in emotion_keywords: only the
\* emotions whose score is positive are inserted
EmotionScores(text_lower) ==
    [i \in {j \in 1..Len(emotion_keywords) :
                KeywordScore(emotion_keywords[j][2], text_lower) > 0}
        |-> KeywordScore(emotion_keywords[i][2], text_lower)]

\* the last key, in insertion order, whose value is the largest
PyMaxKey_Last(scores) ==
    CHOOSE i \in DOMAIN scores :
        \A j \in DOMAIN scores :
            /\ scores[j] <= scores[i]
            /\ (j > i => scores[j] < scores[i])

\* max(emotion_scores, key=emotion_scores.get): the first key, in insertion
\* order, whose value is the largest
PyMaxKey(scores) ==
    CHOOSE i \in DOMAIN scores :
        \A j \in DOMAIN scores :
            /\ scores[j] <= scores[i]
            /\ (j < i => scores[j] < scores[i])

\* the thresholds compared with > in place of >=
DetermineIntensity_Strict(confidence) ==
    IF confidence > 9 THEN "very_high"
    ELSE IF confidence > 7 THEN "high"
    ELSE IF confidence > 5 THEN "medium"
    ELSE IF confidence > 3 THEN "low"
    ELSE "very_low"

\* every threshold one tenth lower
DetermineIntensity_Lower(confidence) ==
    IF confidence >= 8 THEN "very_high"
    ELSE IF confidence >= 6 THEN "high"
    ELSE IF confidence >= 4 THEN "medium"
    ELSE IF confidence >= 2 THEN "low"
    ELSE "very_low"

\* EmotionAI._determine_intensity; a confidence is held in tenths (0.7 is 7)
DetermineIntensity(confidence) ==
    IF confidence >= 9 THEN "very_high"
    ELSE IF confidence >= 7 THEN "high"
    ELSE IF confidence >= 5 THEN "medium"
    ELSE IF confidence >= 3 THEN "low"
    ELSE "very_low"

\* EmotionAI._generate_emotion_suggestions
GenerateEmotionSuggestions(emotion) ==
    LET suggestions ==
          IF emotion = "stress" \/ emotion = "anxiety" THEN
            <<"Would you like me to dim the lights and play calming music?",
              "I can schedule a spa treatment or meditation session for you.",
              "Would you prefer a quiet room service meal in your room?",
              "I can adjust the room temperature to a more comfortable level.">>
          ELSE IF emotion = "sadness" THEN
            <<"Would you like me to suggest some uplifting activities?",
              "I can arrange for your favorite comfort food to be delivered.",
              "Would you like to connect with our concierge for local entertainment?",
              "I can adjust the room lighting to be more cheerful.">>
          ELSE IF emotion = "joy" \/ emotion = "excitement" THEN
            <<"Would you like me to suggest some exciting local activities?",
              "I can help you plan a special celebration dinner.",
              "Would you like to explore our premium amenities?",
              "I can arrange for a surprise upgrade or special treat.">>
          ELSE IF emotion = "anger" \/ emotion = "frustration" THEN
            <<"I understand you're frustrated. How can I help resolve this?",
              "Would you like me to connect you with our manager?",
              "I can arrange for a quiet space or different room if needed.",
              "Would you like me to suggest some stress-relief activities?">>
          ELSE <<>>
    IN PySliceTo(suggestions, 3)

\* EmotionAI._default_emotion_result
DefaultEmotionResult(ts) ==
    [emotion |-> "neutral",
     intensity |-> "medium",
     confidence |-> 5,
     context |-> None,
     suggestions |-> <<"How can I assist you today?">>,
     timestamp |-> ts]

\* the classifier answering the default result for a text without keywords
DetectTextEmotion_DefaultResult(text, context, ts) ==
    LET emotion_scores == EmotionScores(lower(text))
        confidence == Min(9, 5 + emotion_scores[PyMaxKey(emotion_scores)])
        detected_emotion == emotion_keywords[PyMaxKey(emotion_scores)][1]
    IN IF DOMAIN emotion_scores = {} THEN DefaultEmotionResult(ts)
       ELSE [emotion |-> detected_emotion,
             intensity |-> DetermineIntensity(confidence),
             confidence |-> confidence,
             context |-> context,
             suggestions |-> GenerateEmotionSuggestions(detected_emotion),
             timestamp |-> ts]

\* the classifier with a confidence that depends on the time of the call
DetectTextEmotion_ClockDependent(text, context, ts) ==
    LET emotion_scores == EmotionScores(lower(text))
        detected_emotion ==
            IF DOMAIN emotion_scores # {}
            THEN emotion_keywords[PyMaxKey(emotion_scores)][1]
            ELSE "neutral"
        confidence == 5 + (ts % 2)
    IN [emotion |-> detected_emotion,
        intensity |-> DetermineIntensity(confidence),
        confidence |-> confidence,
        context |-> context,
        suggestions |-> GenerateEmotionSuggestions(detected_emotion),
        timestamp |-> ts]

\* EmotionAI.detect_text_emotion; ts is the reading of datetime.now()
DetectTextEmotion(text, context, ts) ==
    LET text_lower == lower(text)
        emotion_scores == EmotionScores(text_lower)
        detected_emotion ==
            IF DOMAIN emotion_scores # {}
            THEN emotion_keywords[PyMaxKey(emotion_scores)][1]
            ELSE "neutral"
        confidence ==
            IF DOMAIN emotion_scores # {}
            THEN Min(9, 5 + emotion_scores[PyMaxKey(emotion_scores)])
            ELSE 5
        intensity == DetermineIntensity(confidence)
    IN [emotion |-> detected_emotion,
        intensity |-> intensity,
        confidence |-> confidence,
        context |-> context,
        suggestions |-> GenerateEmotionSuggestions(detected_emotion),
        timestamp |-> ts]

-----------------------------------------------------------------------------
(* Response synthesis: ConciergeAI._generate_response and its helpers      *)

ConciergePersonalityValues ==
    {"professional", "friendly", "enthusiastic", "calm", "humorous",
     "formal", "casual", "empathetic", "efficient", "conversational"}

\* ConciergePersonality(value): the enum lookup raises ValueError for a
\* string that is no member's value
ConciergePersonality(value) ==
    IF value \in ConciergePersonalityValues THEN Ok(value) ELSE Raise("ValueError")

\* the greeting f-string of _generate_template_response: its template and
\* the guest name substituted into it
Greeting(personality, guest_name) ==
    [template |->
        IF personality = "friendly" THEN "Hi {guest_name}! I'm so happy to help you today!"
        ELSE IF personality = "professional" THEN "Good day, {guest_name}. How may I assist you today?"
        ELSE IF personality = "enthusiastic" THEN "Hello {guest_name}! I'm excited to help make your stay amazing!"
        ELSE IF personality = "calm" THEN "Hello {guest_name}. I'm here to help you feel comfortable and relaxed."
        ELSE IF personality = "humorous" THEN "Hey there, {guest_name}! Ready to have some fun? Let me know what you need!"
        ELSE IF personality = "empathetic" THEN "Hello {guest_name}. I'm here to listen and help however I can."
        ELSE "Hello {guest_name}. How can I assist you today?",
     guest_name |-> guest_name]

\* service_responses.get(service_type, service_responses[GENERAL]): the dict
\* has no entry for housekeeping
ServiceResponse(service_type) ==
    IF service_type \in {"room_service", "dining", "wellness", "concierge",
                         "transportation", "entertainment", "business",
                         "emergency", "general"}
    THEN service_type
    ELSE "general"

EmotionResponse(emotion_result) ==
    IF ~IsNone(emotion_result) /\ emotion_result.emotion \in {"stress", "anxiety"}
    THEN " I can sense you might be feeling a bit stressed. Let me help make things easier for you."
    ELSE IF ~IsNone(emotion_result) /\ emotion_result.emotion \in {"sadness"}
    THEN " I want to make sure you're comfortable and happy during your stay. How can I help brighten your day?"
    ELSE IF ~IsNone(emotion_result) /\ emotion_result.emotion \in {"joy", "excitement"}
    THEN " I love your positive energy! Let's make your stay even more amazing!"
    ELSE ""

\* ConciergeAI._generate_template_response: the three fragments that the
\* final f-string joins
GenerateTemplateResponse(personality, service_type, emotion_result, user) ==
    <<Greeting(personality, user.first_name),
      ServiceResponse(service_type),
      EmotionResponse(emotion_result)>>

\* the generator with ANXIETY left out of the first cluster
GenerateProactiveActions_NoAnxiety(emotion_result) ==
    IF IsNone(emotion_result) THEN <<>>
    ELSE IF emotion_result.emotion \in {"stress"} THEN
        <<[action |-> "adjust_lighting", value |-> "dim",
           reason |-> "Create calming atmosphere"],
          [action |-> "suggest_wellness", value |-> "spa_treatment",
           reason |-> "Help reduce stress"],
          [action |-> "adjust_temperature", value |-> "comfortable",
           reason |-> "Optimize comfort"]>>
    ELSE IF emotion_result.emotion = "sadness" THEN
        <<[action |-> "suggest_entertainment", value |-> "uplifting_activity",
           reason |-> "Boost mood"],
          [action |-> "offer_comfort_food", value |-> "favorite_dish",
           reason |-> "Provide comfort"]>>
    ELSE IF emotion_result.emotion \in {"joy", "excitement"} THEN
        <<[action |-> "suggest_premium_services", value |-> "upgrade_options",
           reason |-> "Enhance positive experience"],
          [action |-> "recommend_activities", value |-> "exciting_experiences",
           reason |-> "Maintain positive energy"]>>
    ELSE <<>>

\* ConciergeAI._generate_proactive_actions
GenerateProactiveActions(emotion_result) ==
    IF IsNone(emotion_result) THEN <<>>
    ELSE IF emotion_result.emotion \in {"stress", "anxiety"} THEN
        <<[action |-> "adjust_lighting", value |-> "dim",
           reason |-> "Create calming atmosphere"],
          [action |-> "suggest_wellness", value |-> "spa_treatment",
           reason |-> "Help reduce stress"],
          [action |-> "adjust_temperature", value |-> "comfortable",
           reason |-> "Optimize comfort"]>>
    ELSE IF emotion_result.emotion = "sadness" THEN
        <<[action |-> "suggest_entertainment", value |-> "uplifting_activity",
           reason |-> "Boost mood"],
          [action |-> "offer_comfort_food", value |-> "favorite_dish",
           reason |-> "Provide comfort"]>>
    ELSE IF emotion_result.emotion \in {"joy", "excitement"} THEN
        <<[action |-> "suggest_premium_services", value |-> "upgrade_options",
           reason |-> "Enhance positive experience"],
          [action |-> "recommend_activities", value |-> "exciting_experiences",
           reason |-> "Maintain positive energy"]>>
    ELSE <<>>

\* the generator returning all the questions of the category
GenerateFollowUpQuestions_Untruncated(service_type, emotion_result) ==
    LET questions ==
          IF service_type = "room_service" THEN
            <<"Would you like me to schedule housekeeping for a specific time?",
              "Is there anything specific you'd like me to arrange for your room?",
              "Would you like me to adjust any room settings for you?">>
          ELSE IF service_type = "dining" THEN
            <<"Do you have any dietary restrictions or preferences?",
              "What type of cuisine are you in the mood for?",
              "Would you like me to make a reservation for you?">>
          ELSE IF service_type = "wellness" THEN
            <<"What type of wellness experience are you looking for?",
              "Do you have any specific health goals or preferences?",
              "Would you like me to check availability for spa services?">>
          ELSE <<>>
    IN questions

\* ConciergeAI._generate_follow_up_questions; the emotion result is not read
GenerateFollowUpQuestions(service_type, emotion_result) ==
    LET questions ==
          IF service_type = "room_service" THEN
            <<"Would you like me to schedule housekeeping for a specific time?",
              "Is there anything specific you'd like me to arrange for your room?",
              "Would you like me to adjust any room settings for you?">>
          ELSE IF service_type = "dining" THEN
            <<"Do you have any dietary restrictions or preferences?",
              "What type of cuisine are you in the mood for?",
              "Would you like me to make a reservation for you?">>
          ELSE IF service_type = "wellness" THEN
            <<"What type of wellness experience are you looking for?",
              "Do you have any specific health goals or preferences?",
              "Would you like me to check availability for spa services?">>
          ELSE <<>>
    IN PySliceTo(questions, 2)

complex_keywords ==
    << <<"c","o","m","p","l","a","i","n","t">>,
       <<"r","e","f","u","n","d">>,
       <<"m","a","n","a","g","e","r">>,
       <<"s","u","p","e","r","v","i","s","o","r">>,
       <<"l","e","g","a","l">>,
       <<"m","e","d","i","c","a","l">> >>

\* the policy escalating ANGER only, FRUSTRATION left out
RequiresHumanIntervention_AngerOnly(message, emotion_result, service_type) ==
    IF service_type = "emergency" THEN TRUE
    ELSE IF /\ ~IsNone(emotion_result)
            /\ emotion_result.intensity \in {"high", "very_high"}
            /\ emotion_result.emotion \in {"anger"}
    THEN TRUE
    ELSE IF AnyWordIn(complex_keywords, lower(message)) THEN TRUE
    ELSE FALSE

\* the policy without its emergency rule
RequiresHumanIntervention_NoEmergencyRule(message, emotion_result, service_type) ==
    IF /\ ~IsNone(emotion_result)
       /\ emotion_result.intensity \in {"high", "very_high"}
       /\ emotion_result.emotion \in {"anger", "frustration"}
    THEN TRUE
    ELSE IF AnyWordIn(complex_keywords, lower(message)) THEN TRUE
    ELSE FALSE

\* ConciergeAI._requires_human_intervention
RequiresHumanIntervention(message, emotion_result, service_type) ==
    IF service_type = "emergency" THEN TRUE
    ELSE IF /\ ~IsNone(emotion_result)
            /\ emotion_result.intensity \in {"high", "very_high"}
            /\ emotion_result.emotion \in {"anger", "frustration"}
    THEN TRUE
    ELSE IF AnyWordIn(complex_keywords, lower(message)) THEN TRUE
    ELSE FALSE

\* ConciergeAI._generate_response
GenerateResponse(message, user, personality, service_type, emotion_result) ==
    [message |-> GenerateTemplateResponse(personality, service_type, emotion_result, user),
     personality |-> personality,
     service_type |-> service_type,
     suggestions |-> IF IsNone(emotion_result) THEN <<>> ELSE emotion_result.suggestions,
     proactive_actions |-> GenerateProactiveActions(emotion_result),
     emotion_detected |-> emotion_result,
     follow_up_questions |-> GenerateFollowUpQuestions(service_type, emotion_result),
     requires_human |-> RequiresHumanIntervention(message, emotion_result, service_type)]

-----------------------------------------------------------------------------
(* Conversation memory: ConciergeAI._update_conversation_memory and the    *)
(* history handlers of api/concierge.py                                    *)

\* the capacity of one guest's history
HistoryCap == 20

\* the turn recorded without looking at the emotion of the response
ConversationTurn_NoEmotion(message, response, ts) ==
    [timestamp |-> ts,
     user_message |-> message,
     ai_response |-> response.message,
     emotion_detected |-> "None",
     service_type |-> response.service_type]

\* one entry of a guest's history; ts is the reading of datetime.now()
ConversationTurn(message, response, ts) ==
    [timestamp |-> ts,
     user_message |-> message,
     ai_response |-> response.message,
     emotion_detected |->
        IF IsNone(response.emotion_detected) THEN "None"
        ELSE response.emotion_detected.emotion,
     service_type |-> response.service_type]

\* the update without the truncation to the last HistoryCap turns
UpdateConversationMemory_NoEvict(mem, user_id, message, response, ts) ==
    LET old == PyGet(mem, user_id, <<>>)
    IN Ok(PySet(mem, user_id, Append(old, ConversationTurn(message, response, ts))))

\* the update truncating with [:20], which keeps the oldest turns
UpdateConversationMemory_KeepOldest(mem, user_id, message, response, ts) ==
    LET old == PyGet(mem, user_id, <<>>)
        new == Append(old, ConversationTurn(message, response, ts))
    IN Ok(PySet(mem, user_id, PySliceTo(new, HistoryCap)))

\* the update that starts a fresh list on every call
UpdateConversationMemory_Reinit(mem, user_id, message, response, ts) ==
    Ok(PySet(mem, user_id, <<ConversationTurn(message, response, ts)>>))

\* the update that inserts the new turn at the front of the list
UpdateConversationMemory_InsertFront(mem, user_id, message, response, ts) ==
    LET old == PyGet(mem, user_id, <<>>)
        new == <<ConversationTurn(message, response, ts)>> \o old
    IN Ok(PySet(mem, user_id, PySliceFrom(new, 0 - HistoryCap)))

\* ConciergeAI._update_conversation_memory: the dict after the call, or the
\* exception it raises
UpdateConversationMemory(mem, user_id, message, response, ts) ==
    LET m1 == IF user_id \notin DOMAIN mem THEN PySet(mem, user_id, <<>>) ELSE mem
        old == PyIndex(m1, user_id)
    IN IF old.raised THEN old
       ELSE LET m2 == PySet(m1, user_id,
                            Append(old.value, ConversationTurn(message, response, ts)))
            IN IF Len(m2[user_id]) > HistoryCap
               THEN Ok(PySet(m2, user_id, PySliceFrom(m2[user_id], 0 - HistoryCap)))
               ELSE Ok(m2)

\* the history handler reading conversation_memory[user_id] instead of
\* .get(user_id, [])
GetConversationHistory_Index(mem, user_id, limit) ==
    LET history == PyIndex(mem, user_id)
    IN IF history.raised THEN history
       ELSE Ok([memory |-> mem,
                body |-> [conversation_history |->
                              IF Len(history.value) > limit
                              THEN PySliceFrom(history.value, 0 - limit)
                              ELSE history.value,
                          total_messages |-> Len(history.value)]])

\* the clear handler emptying the whole memory
ClearConversationHistory_AllGuests(mem, user_id) ==
    Ok([memory |-> <<>>, body |-> "Conversation history cleared successfully"])

\* the clear handler deleting the key without testing for it
ClearConversationHistory_Unguarded(mem, user_id) ==
    LET deleted == PyDel(mem, user_id)
    IN IF deleted.raised THEN deleted
       ELSE Ok([memory |-> deleted.value,
                body |-> "Conversation history cleared successfully"])

\* get_conversation_history, the body of its try block: the dict it leaves
\* and the body it answers with
GetConversationHistory(mem, user_id, limit) ==
    LET history == PyGet(mem, user_id, <<>>)
        recent_history ==
            IF Len(history) > limit THEN PySliceFrom(history, 0 - limit) ELSE history
    IN Ok([memory |-> mem,
           body |-> [conversation_history |-> recent_history,
                     total_messages |-> Len(history)]])

\* clear_conversation_history, the body of its try block: the dict it leaves
\* and the body it answers with
ClearConversationHistory(mem, user_id) ==
    LET deleted == IF user_id \in DOMAIN mem THEN PyDel(mem, user_id) ELSE Ok(mem)
    IN IF deleted.raised THEN deleted
       ELSE Ok([memory |-> deleted.value,
                body |-> "Conversation history cleared successfully"])

\* the handlers' try/except: an exception becomes HTTP 500
HttpStatus(outcome) == IF outcome.raised THEN 500 ELSE 200

-----------------------------------------------------------------------------
(* The inputs and the bounds of the model                                  *)

\* the guests (User.id) that send requests
Guests == {1, 2}

\* the request tasks that may be in flight on the event loop at once
Tasks == {"t1", "t2"}

\* the message texts sent to /chat: "Room" and "so sad"
MessageTexts == { <<"R","o","o","m">>, <<"s","o"," ","s","a","d">> }

\* the values of User.preferred_ai_personality: one member of the enum and
\* one string that is no member
Personalities == {"friendly", "bogus"}

\* the number of /chat requests in one run
MaxCalls == 2

\* the number of exchanges the first guest may already have had at the start
Prefill == 20

\* the largest limit passed to /conversation/history
MaxLimit == 22

Limits == {-1, 0, 1} \cup (HistoryCap..MaxLimit)

User(user_id, personality) ==
    [id |-> user_id, first_name |-> "John", preferred_ai_personality |-> personality]

\* the text of the exchanges already had at the start
PrefillText == <<"R","o","o","m">>

\* the response of one whole process_guest_message call that is not
\* interleaved with any other
SequentialResponse(message, user, ts) ==
    GenerateResponse(message, user, ConciergePersonality(user.preferred_ai_personality).value,
                     ClassifyServiceType(message), DetectTextEmotion(message, None, ts))

\* the turn that the i-th exchange at the start recorded
PrefillTurn(i) ==
    ConversationTurn(PrefillText, SequentialResponse(PrefillText, User(1, "friendly"), i), i)

\* the memory after n sequential exchanges of guest 1: the last HistoryCap
\* of the turns they recorded
PrefillMemory(n) ==
    IF n = 0 THEN <<>>
    ELSE [g \in {1} |->
             [i \in 1..Min(n, HistoryCap) |-> PrefillTurn(i + n - Min(n, HistoryCap))]]

-----------------------------------------------------------------------------
(* State                                                                   *)

VARIABLES
    conversation_memory,  \* ConciergeAI.conversation_memory: user id -> list of turns
    now,                  \* the clock read by datetime.now()
    pc,                   \* per task: where its process_guest_message call stands
    req,                  \* per task: the arguments of its call
    emo,                  \* per task: the local emotion_result
    lastOp,               \* the last request that ended, what its caller got, and
                          \* whether an exception arose while its text was composed
    appendLog,            \* per guest: every turn appended since the last clear
    completed,            \* per guest: the /chat calls answered since the last clear
    calls,                \* the number of /chat requests made
    text_in,              \* the text handed to a classifier on its own
    route_out,            \* what the router returned for text_in
    fn_args,              \* the other arguments handed to a function on its own
    fn_log,               \* the calls made of such functions, with what they returned
    ALLOWED_ACTIONS,      \* shared/security.py: the module's set of allowed actions
    _events,              \* shared/telemetry.py: the in-memory event list
    _counters,            \* shared/telemetry.py: the counters, a defaultdict(int)
    _lock,                \* shared/telemetry.py: "free", or the thread that holds it
    csv_rows,             \* the number of event rows in the telemetry CSV file
    utc,                  \* the clock read by datetime.utcnow()
    tpc,                  \* per thread: where its telemetry call stands
    tev,                  \* per thread: the event of its telemetry call
    tel_out,              \* per thread: how its last telemetry call ended
    metrics,              \* what the last get_metrics call returned
    logged,               \* every event stored since the last reset_metrics
    tel_calls             \* the number of telemetry calls made

\* the module-level state of shared/
sharedVars == <<ALLOWED_ACTIONS, _events, _counters, _lock, csv_rows, utc, tpc, tev,
               tel_out, metrics, logged, tel_calls>>

\* the threads that log telemetry events
Threads == {"th1", "th2"}

\* no event
NoEvent == [none |-> TRUE]

vars == <<conversation_memory, now, pc, req, emo, lastOp, appendLog, completed,
          calls, text_in, route_out, fn_args, fn_log, sharedVars>>

memVars == <<conversation_memory, now, pc, req, emo, lastOp, appendLog, completed,
             calls>>

fnVars == <<text_in, route_out, fn_args, fn_log>>

NoReq == [message |-> <<>>, user |-> User(0, "")]

\* no further argument
NoArgs == [none |-> TRUE]

NoOp == [op |-> "none", user_id |-> 0, arg |-> 0, status |-> 0, result |-> <<>>,
         fault |-> FALSE]

\* the history the memory holds for a guest, empty when it holds no key
History(mem, g) == IF g \in DOMAIN mem THEN mem[g] ELSE <<>>

\* the modules of shared/ after import
InitSecurity ==
    ALLOWED_ACTIONS = {"room.checkout", "room.environment", "offers.apply"}

\* the threads of shared/telemetry.py at rest
InitThreads ==
    /\ _lock = "free"
    /\ tpc = [th \in Threads |-> "idle"]
    /\ tev = [th \in Threads |-> NoEvent]
    /\ tel_out = [th \in Threads |-> None]
    /\ metrics = None
    /\ tel_calls = 0

InitShared ==
    /\ InitSecurity
    /\ InitThreads
    /\ _events = <<>>
    /\ _counters = <<>>
    /\ csv_rows = 0
    /\ utc = 1
    /\ logged = <<>>

\* the store after construction, or after Prefill sequential exchanges of
\* guest 1
InitMemory ==
    /\ \E n \in {0, Prefill} :
          /\ conversation_memory = PrefillMemory(n)
          /\ appendLog = [g \in Guests |->
                            IF g = 1 THEN [i \in 1..n |-> PrefillTurn(i)] ELSE <<>>]
          /\ completed = [g \in Guests |-> IF g = 1 THEN n ELSE 0]
          /\ now = n + 1
    /\ pc = [t \in Tasks |-> "idle"]
    /\ req = [t \in Tasks |-> NoReq]
    /\ emo = [t \in Tasks |-> None]
    /\ lastOp = NoOp
    /\ calls = 0

Init ==
    /\ InitMemory
    /\ text_in = <<>>
    /\ route_out = "none"
    /\ fn_args = NoArgs
    /\ fn_log = <<>>
    /\ InitShared

-----------------------------------------------------------------------------
(* POST /chat: chat_with_concierge awaiting process_guest_message.  A task *)
(* runs without interruption from one await to the next.                   *)

\* the request arrives; the call runs up to `await detect_text_emotion`
Invoke(t, g, message, personality) ==
    /\ pc[t] = "idle"
    /\ calls < MaxCalls
    /\ calls' = calls + 1
    /\ pc' = [pc EXCEPT ![t] = "detect"]
    /\ req' = [req EXCEPT ![t] = [message |-> message, user |-> User(g, personality)]]
    /\ UNCHANGED <<conversation_memory, now, emo, lastOp, appendLog, completed>>
    /\ UNCHANGED fnVars
    /\ UNCHANGED sharedVars

\* the call recording the turn before the enum lookup has accepted the
\* personality
DetectStep_UpdateEarly(t) ==
    /\ pc[t] = "detect"
    /\ LET message == req[t].message
           user == req[t].user
           emotion_result == DetectTextEmotion(message, None, now)
           personality == ConciergePersonality(user.preferred_ai_personality)
           response == GenerateResponse(message, user, user.preferred_ai_personality,
                                        ClassifyServiceType(message), emotion_result)
           updated == UpdateConversationMemory(
                          conversation_memory, user.id, message, response, now)
       IN /\ conversation_memory' = updated.value
          /\ appendLog' = [appendLog EXCEPT ![user.id] =
                              Append(@, ConversationTurn(message, response, now))]
          /\ IF personality.raised
             THEN /\ pc' = [pc EXCEPT ![t] = "idle"]
                  /\ req' = [req EXCEPT ![t] = NoReq]
                  /\ emo' = emo
                  /\ lastOp' = [op |-> "chat", user_id |-> user.id,
                                arg |-> message, status |-> 500,
                                result |-> personality.value,
                                fault |-> FALSE]
             ELSE /\ pc' = [pc EXCEPT ![t] = "generate"]
                  /\ req' = req
                  /\ emo' = [emo EXCEPT ![t] = emotion_result]
                  /\ lastOp' = lastOp
    /\ UNCHANGED <<now, completed, calls>>
    /\ UNCHANGED fnVars
    /\ UNCHANGED sharedVars

\* detect_text_emotion returns; the router and the enum lookup run; the call
\* runs up to `await _generate_response`, or the lookup raises and the
\* handler answers 500
DetectStep(t) ==
    /\ pc[t] = "detect"
    /\ LET emotion_result == DetectTextEmotion(req[t].message, None, now)
           personality == ConciergePersonality(req[t].user.preferred_ai_personality)
       IN IF personality.raised
          THEN /\ pc' = [pc EXCEPT ![t] = "idle"]
               /\ req' = [req EXCEPT ![t] = NoReq]
               /\ emo' = emo
               /\ lastOp' = [op |-> "chat", user_id |-> req[t].user.id,
                             arg |-> req[t].message, status |-> 500,
                             result |-> personality.value,
                             fault |-> FALSE]
          ELSE /\ pc' = [pc EXCEPT ![t] = "generate"]
               /\ req' = req
               /\ emo' = [emo EXCEPT ![t] = emotion_result]
               /\ lastOp' = lastOp
    /\ UNCHANGED <<conversation_memory, now, appendLog, completed, calls>>
    /\ UNCHANGED fnVars
    /\ UNCHANGED sharedVars

\* _generate_response returns; the memory is updated and the response is
\* returned to the handler, which answers 200
GenerateStep(t) ==
    /\ pc[t] = "generate"
    /\ LET message == req[t].message
           user == req[t].user
           response == GenerateResponse(
                           message, user,
                           ConciergePersonality(user.preferred_ai_personality).value,
                           ClassifyServiceType(message), emo[t])
           updated == UpdateConversationMemory(
                          conversation_memory, user.id, message, response, now)
       IN /\ conversation_memory' =
                IF updated.raised THEN conversation_memory ELSE updated.value
          /\ appendLog' =
                IF updated.raised THEN appendLog
                ELSE [appendLog EXCEPT ![user.id] =
                         Append(@, ConversationTurn(message, response, now))]
          /\ completed' =
                IF updated.raised THEN completed
                ELSE [completed EXCEPT ![user.id] = @ + 1]
          /\ lastOp' = [op |-> "chat", user_id |-> user.id, arg |-> message,
                        status |-> HttpStatus(updated),
                        result |-> IF updated.raised THEN updated.value ELSE response,
                        fault |-> FALSE]
    /\ now' = now + 1
    /\ pc' = [pc EXCEPT ![t] = "idle"]
    /\ req' = [req EXCEPT ![t] = NoReq]
    /\ emo' = [emo EXCEPT ![t] = None]
    /\ UNCHANGED calls
    /\ UNCHANGED fnVars
    /\ UNCHANGED sharedVars

\* the task is cancelled while it is suspended at an await: CancelledError
\* is no Exception, so the handler's except clause does not catch it
Cancel(t) ==
    /\ pc[t] \in {"detect", "generate"}
    /\ pc' = [pc EXCEPT ![t] = "idle"]
    /\ lastOp' = [op |-> "chat", user_id |-> req[t].user.id, arg |-> req[t].message,
                  status |-> 0, result |-> "CancelledError",
                  fault |-> FALSE]
    /\ req' = [req EXCEPT ![t] = NoReq]
    /\ emo' = [emo EXCEPT ![t] = None]
    /\ UNCHANGED <<conversation_memory, now, appendLog, completed, calls>>
    /\ UNCHANGED fnVars
    /\ UNCHANGED sharedVars

\* GET /conversation/history
GetHistory(g, limit) ==
    /\ LET outcome == GetConversationHistory(conversation_memory, g, limit)
       IN /\ conversation_memory' =
                IF outcome.raised THEN conversation_memory ELSE outcome.value.memory
          /\ lastOp' = [op |-> "history", user_id |-> g, arg |-> limit,
                        status |-> HttpStatus(outcome),
                        result |-> IF outcome.raised THEN outcome.value
                                   ELSE outcome.value.body,
                        fault |-> FALSE]
    /\ UNCHANGED <<now, pc, req, emo, appendLog, completed, calls>>
    /\ UNCHANGED fnVars
    /\ UNCHANGED sharedVars

\* DELETE /conversation/clear; lastOp.arg keeps the number of turns the
\* guest had stored when the request arrived
ClearHistory(g) ==
    /\ LET outcome == ClearConversationHistory(conversation_memory, g)
       IN /\ conversation_memory' =
                IF outcome.raised THEN conversation_memory ELSE outcome.value.memory
          /\ lastOp' = [op |-> "clear", user_id |-> g,
                        arg |-> Len(History(conversation_memory, g)),
                        status |-> HttpStatus(outcome),
                        result |-> IF outcome.raised THEN outcome.value
                                   ELSE outcome.value.body,
                        fault |-> FALSE]
          /\ appendLog' = IF outcome.raised THEN appendLog
                          ELSE [appendLog EXCEPT ![g] = <<>>]
          /\ completed' = IF outcome.raised THEN completed
                          ELSE [completed EXCEPT ![g] = 0]
    /\ UNCHANGED <<now, pc, req, emo, calls>>
    /\ UNCHANGED fnVars
    /\ UNCHANGED sharedVars

Next ==
    \/ \E t \in Tasks, g \in Guests, m \in MessageTexts, p \in Personalities :
          Invoke(t, g, m, p)
    \/ \E t \in Tasks : DetectStep(t)
    \/ \E t \in Tasks : GenerateStep(t)
    \/ \E t \in Tasks : Cancel(t)
    \/ \E g \in Guests, limit \in Limits : GetHistory(g, limit)
    \/ \E g \in Guests : ClearHistory(g)

Spec == Init /\ [][Next]_vars

-----------------------------------------------------------------------------
(* POST /chat for one request at a time, with messages of every kind and   *)
(* with exceptions arising while the response text is composed             *)

\* the number of /chat requests in one run of this part
MaxChatCalls == 1

\* "Help", "urgent, so happy", "EMERGENCY refund", "I am furious", "hello",
\* "emergency in my room", "Urgent: dinner problem, call the manager",
\* "I am furious and mad, help with my room", "I am furious and mad",
\* "angry mad but happy great love"
ChatTexts ==
    { <<"H","e","l","p">>,
      <<"u","r","g","e","n","t",","," ","s","o"," ","h","a","p","p","y">>,
      <<"E","M","E","R","G","E","N","C","Y"," ","r","e","f","u","n","d">>,
      <<"I"," ","a","m"," ","f","u","r","i","o","u","s">>,
      <<"h","e","l","l","o">>,
      <<"e","m","e","r","g","e","n","c","y"," ","i","n"," ","m","y"," ","r","o","o","m">>,
      <<"U","r","g","e","n","t",":"," ","d","i","n","n","e","r"," ","p","r","o","b","l","e","m",","," ","c","a","l","l"," ","t","h","e"," ","m","a","n","a","g","e","r">>,
      <<"I"," ","a","m"," ","f","u","r","i","o","u","s"," ","a","n","d"," ","m","a","d",","," ","h","e","l","p"," ","w","i","t","h"," ","m","y"," ","r","o","o","m">>,
      <<"I"," ","a","m"," ","f","u","r","i","o","u","s"," ","a","n","d"," ","m","a","d">>,
      <<"a","n","g","r","y"," ","m","a","d"," ","b","u","t"," ","h","a","p","p","y"," ","g","r","e","a","t"," ","l","o","v","e">> }

\* the values of User.preferred_ai_personality: two members of the enum, one
\* with a greeting of its own and one without, and two strings that are no
\* members
ChatPersonalities == {"friendly", "casual", "bogus", "PROFESSIONAL"}

ChatInvoke(g, message, personality) ==
    /\ calls < MaxChatCalls
    /\ Invoke("t1", g, message, personality)

\* an exception is raised while _generate_template_response composes the
\* text: neither _generate_response nor process_guest_message catches it, the
\* memory is not updated, and the handler's except clause answers 500
SynthesisFault(t) ==
    /\ pc[t] = "generate"
    /\ lastOp' = [op |-> "chat", user_id |-> req[t].user.id, arg |-> req[t].message,
                  status |-> HttpStatus(Raise("RuntimeError")),
                  result |-> "RuntimeError",
                  fault |-> TRUE]
    /\ pc' = [pc EXCEPT ![t] = "idle"]
    /\ req' = [req EXCEPT ![t] = NoReq]
    /\ emo' = [emo EXCEPT ![t] = None]
    /\ UNCHANGED <<conversation_memory, now, appendLog, completed, calls>>
    /\ UNCHANGED fnVars
    /\ UNCHANGED sharedVars

NextChat ==
    \/ \E g \in Guests, m \in ChatTexts, p \in ChatPersonalities : ChatInvoke(g, m, p)
    \/ DetectStep("t1")
    \/ GenerateStep("t1")
    \/ SynthesisFault("t1")

SpecChat == Init /\ [][NextChat]_vars

-----------------------------------------------------------------------------
(* The router on its own, applied to texts built from a vocabulary         *)

\* the most words a text under test is built from
MaxWords == 2

\* "Room", "Dinner", "SPA", "Taxi", "movie", "Meeting", "HELP", "hello",
\* "great" (holds "eat"), "refund" (holds "fun"), "scared" (holds "car")
RouteVocab ==
    { <<"R","o","o","m">>, <<"D","i","n","n","e","r">>, <<"S","P","A">>,
      <<"T","a","x","i">>, <<"m","o","v","i","e">>,
      <<"M","e","e","t","i","n","g">>, <<"H","E","L","P">>,
      <<"h","e","l","l","o">>, <<"g","r","e","a","t">>,
      <<"r","e","f","u","n","d">>, <<"s","c","a","r","e","d">> }

\* "I am so stressed about tomorrow's meeting"
ScenarioA ==
    <<"I"," ","a","m"," ","s","o"," ","s","t","r","e","s","s","e","d"," ",
      "a","b","o","u","t"," ","t","o","m","o","r","r","o","w","'","s"," ",
      "m","e","e","t","i","n","g">>

\* the texts of at most n words of the vocabulary, joined by single spaces
RECURSIVE WordTexts(_)
WordTexts(n) ==
    IF n = 0 THEN { <<>> }
    ELSE WordTexts(n - 1) \cup
         { (IF t = <<>> THEN w ELSE t \o <<" ">> \o w) :
               t \in WordTexts(n - 1), w \in RouteVocab }

RouteTexts == WordTexts(MaxWords) \cup {ScenarioA}

InitRoute ==
    /\ InitMemory
    /\ text_in \in RouteTexts
    /\ route_out = "none"
    /\ fn_args = NoArgs
    /\ fn_log = <<>>
    /\ InitShared

\* one call of _classify_service_type
RouteCall ==
    /\ route_out = "none"
    /\ route_out' = ClassifyServiceType(text_in)
    /\ UNCHANGED <<text_in, fn_args, fn_log>>
    /\ UNCHANGED memVars
    /\ UNCHANGED sharedVars

NextRoute == RouteCall

SpecRoute == InitRoute /\ [][NextRoute]_vars

-----------------------------------------------------------------------------
(* The escalation policy and the proactive action generator on their own,  *)
(* applied to every emotion result and service category                    *)

\* the number of calls made of the functions under test in one run
MaxFnCalls == 2

EmotionIntensityValues == {"very_low", "low", "medium", "high", "very_high"}

\* an EmotionResult with the given emotion and intensity
MakeEmotionResult(emotion, intensity) ==
    [emotion |-> emotion,
     intensity |-> intensity,
     confidence |-> 5,
     context |-> None,
     suggestions |-> GenerateEmotionSuggestions(emotion),
     timestamp |-> 0]

\* every Optional[EmotionResult]
EmotionResults ==
    {None} \cup {MakeEmotionResult(e, i) : e \in EmotionTypeValues,
                                           i \in EmotionIntensityValues}

\* "I want to cancel and get a refund, please connect me to a manager"
ScenarioB ==
    <<"I"," ","w","a","n","t"," ","t","o"," ","c","a","n","c","e","l"," ","a","n","d"," ","g","e","t"," ","a"," ","r","e","f","u","n","d",","," ","p","l","e","a","s","e"," ","c","o","n","n","e","c","t"," ","m","e"," ","t","o"," ","a"," ","m","a","n","a","g","e","r">>

\* "", "hello", "REFUND", "my Manager", "Legal", "medic", "Supervisor",
\* "complaint", "Medical" and the message of scenario B
PolicyTexts ==
    { <<>>, <<"h","e","l","l","o">>, <<"R","E","F","U","N","D">>,
      <<"m","y"," ","M","a","n","a","g","e","r">>, <<"L","e","g","a","l">>,
      <<"m","e","d","i","c">>, <<"S","u","p","e","r","v","i","s","o","r">>,
      <<"c","o","m","p","l","a","i","n","t">>, <<"M","e","d","i","c","a","l">>,
      ScenarioB }

InitPolicy ==
    /\ InitMemory
    /\ text_in \in PolicyTexts
    /\ route_out = "none"
    /\ fn_args \in [emotion_result : EmotionResults, service_type : ServiceTypeValues]
    /\ fn_log = <<>>
    /\ InitShared

\* one call of _requires_human_intervention
RequiresHumanCall ==
    /\ Len(fn_log) < MaxFnCalls
    /\ fn_log' = Append(fn_log,
                        [fn |-> "requires_human",
                         value |-> RequiresHumanIntervention(
                                       text_in, fn_args.emotion_result,
                                       fn_args.service_type)])
    /\ UNCHANGED <<text_in, route_out, fn_args>>
    /\ UNCHANGED memVars
    /\ UNCHANGED sharedVars

\* one call of _generate_proactive_actions
ProactiveActionsCall ==
    /\ Len(fn_log) < MaxFnCalls
    /\ fn_log' = Append(fn_log,
                        [fn |-> "proactive_actions",
                         value |-> GenerateProactiveActions(fn_args.emotion_result)])
    /\ UNCHANGED <<text_in, route_out, fn_args>>
    /\ UNCHANGED memVars
    /\ UNCHANGED sharedVars

NextPolicy == RequiresHumanCall \/ ProactiveActionsCall

SpecPolicy == InitPolicy /\ [][NextPolicy]_vars

-----------------------------------------------------------------------------
(* The emotion classifier and the router on their own, called more than    *)
(* once on one text while the clock runs                                   *)

\* how far the clock may advance in one run
MaxTicks == 2

\* "", "hello", "excited", "Excited and THRILLED", "sad but happy",
\* "angry and scared", "stressed, thrilled", "unhappy", "sad upset hurt",
\* "happy great amazing wonderful", "happy great amazing wonderful love",
\* "I love it, great", "sad sad sad", "anxious", "frustrated",
\* "I feel anxiety and frustration", "surprised and disgusted, yet content"
\* and the message of scenario A
EmotionTexts ==
    { <<"a","n","x","i","o","u","s">>,
      <<"f","r","u","s","t","r","a","t","e","d">>,
      <<"I"," ","f","e","e","l"," ","a","n","x","i","e","t","y"," ","a","n","d"," ","f","r","u","s","t","r","a","t","i","o","n">>,
      <<"s","u","r","p","r","i","s","e","d"," ","a","n","d"," ","d","i","s","g","u","s","t","e","d",","," ","y","e","t"," ","c","o","n","t","e","n","t">>,
      <<>>,
      <<"h","e","l","l","o">>,
      <<"e","x","c","i","t","e","d">>,
      <<"E","x","c","i","t","e","d"," ","a","n","d"," ","T","H","R","I","L","L","E","D">>,
      <<"s","a","d"," ","b","u","t"," ","h","a","p","p","y">>,
      <<"a","n","g","r","y"," ","a","n","d"," ","s","c","a","r","e","d">>,
      <<"s","t","r","e","s","s","e","d",","," ","t","h","r","i","l","l","e","d">>,
      <<"u","n","h","a","p","p","y">>,
      <<"s","a","d"," ","u","p","s","e","t"," ","h","u","r","t">>,
      <<"h","a","p","p","y"," ","g","r","e","a","t"," ","a","m","a","z","i","n","g"," ","w","o","n","d","e","r","f","u","l">>,
      <<"h","a","p","p","y"," ","g","r","e","a","t"," ","a","m","a","z","i","n","g"," ","w","o","n","d","e","r","f","u","l"," ","l","o","v","e">>,
      <<"I"," ","l","o","v","e"," ","i","t",","," ","g","r","e","a","t">>,
      <<"s","a","d"," ","s","a","d"," ","s","a","d">>,
      ScenarioA }

\* the values of the context argument: None, or the string "lobby"
Contexts == {None, [str |-> "lobby"]}

InitEmotion ==
    /\ InitMemory
    /\ text_in \in EmotionTexts
    /\ route_out = "none"
    /\ fn_args = NoArgs
    /\ fn_log = <<>>
    /\ InitShared

\* one call of detect_text_emotion, which reads the clock
ClassifyCall(context) ==
    /\ Len(fn_log) < MaxFnCalls
    /\ fn_log' = Append(fn_log,
                        [fn |-> "detect_text_emotion",
                         value |-> DetectTextEmotion(text_in, context, now)])
    /\ UNCHANGED <<text_in, route_out, fn_args>>
    /\ UNCHANGED memVars
    /\ UNCHANGED sharedVars

\* one call of _classify_service_type
RouterCall ==
    /\ Len(fn_log) < MaxFnCalls
    /\ fn_log' = Append(fn_log,
                        [fn |-> "classify_service_type",
                         value |-> ClassifyServiceType(text_in)])
    /\ UNCHANGED <<text_in, route_out, fn_args>>
    /\ UNCHANGED memVars
    /\ UNCHANGED sharedVars

\* time passes; at the start the clock reads completed[1] + 1
Tick ==
    /\ now < completed[1] + 1 + MaxTicks
    /\ now' = now + 1
    /\ UNCHANGED <<conversation_memory, pc, req, emo, lastOp, appendLog, completed,
                   calls>>
    /\ UNCHANGED fnVars
    /\ UNCHANGED sharedVars

NextEmotion ==
    \/ \E context \in Contexts : ClassifyCall(context)
    \/ RouterCall
    \/ Tick

SpecEmotion == InitEmotion /\ [][NextEmotion]_vars

-----------------------------------------------------------------------------
(* The template response on its own, composed for several personalities    *)
(* with the same guest, service category and emotion result                *)

\* the values of User.first_name
GuestNames == {"John", "Ana", ""}

\* the service categories the text is composed for
TemplateServices == {"general", "emergency", "housekeeping"}

\* the emotion results the text is composed for
TemplateEmotions ==
    {None, MakeEmotionResult("stress", "medium"), MakeEmotionResult("joy", "high"),
     MakeEmotionResult("anger", "very_high")}

InitTemplate ==
    /\ InitMemory
    /\ text_in = <<"h","e","l","l","o">>
    /\ route_out = "none"
    /\ fn_args \in [guest_name : GuestNames, service_type : TemplateServices,
                    emotion_result : TemplateEmotions]
    /\ fn_log = <<>>
    /\ InitShared

\* one call of _generate_template_response for a member of the enum
TemplateCall(personality) ==
    /\ Len(fn_log) < MaxFnCalls
    /\ fn_log' = Append(fn_log,
                        [fn |-> "generate_template_response",
                         personality |-> personality,
                         value |-> GenerateTemplateResponse(
                                       personality, fn_args.service_type,
                                       fn_args.emotion_result,
                                       [id |-> 1, first_name |-> fn_args.guest_name,
                                        preferred_ai_personality |-> personality])])
    /\ UNCHANGED <<text_in, route_out, fn_args>>
    /\ UNCHANGED memVars
    /\ UNCHANGED sharedVars

NextTemplate == \E personality \in ConciergePersonalityValues : TemplateCall(personality)

SpecTemplate == InitTemplate /\ [][NextTemplate]_vars

-----------------------------------------------------------------------------
(* The follow-up question generator on its own, called for one service     *)
(* category with several emotion results                                   *)

InitFollowUp ==
    /\ InitMemory
    /\ text_in = <<"h","e","l","l","o">>
    /\ route_out = "none"
    /\ fn_args \in [service_type : ServiceTypeValues]
    /\ fn_log = <<>>
    /\ InitShared

\* one call of _generate_follow_up_questions
FollowUpCall(emotion_result) ==
    /\ Len(fn_log) < MaxFnCalls
    /\ fn_log' = Append(fn_log,
                        [fn |-> "follow_up_questions",
                         emotion_result |-> emotion_result,
                         value |-> GenerateFollowUpQuestions(
                                       fn_args.service_type, emotion_result)])
    /\ UNCHANGED <<text_in, route_out, fn_args>>
    /\ UNCHANGED memVars
    /\ UNCHANGED sharedVars

NextFollowUp == \E emotion_result \in TemplateEmotions : FollowUpCall(emotion_result)

SpecFollowUp == InitFollowUp /\ [][NextFollowUp]_vars

-----------------------------------------------------------------------------
(* shared/security.py: the allowlist of side-effecting actions             *)

\* the allowlist without "offers.apply"
Allowlist_NoOffers(allowed, action) == action \in allowed \ {"offers.apply"}

\* allowlist(action), reading the module's ALLOWED_ACTIONS
Allowlist(allowed, action) == action \in allowed

\* require_allowlist(action)._check: True, or HTTPException 403
RequireAllowlist(allowed, action) ==
    IF ~Allowlist(allowed, action) THEN Raise(403) ELSE Ok(TRUE)

\* the action strings asked about: the three allowed ones, the one of the
\* test, and strings close to an allowed one
ActionStrings ==
    {"room.checkout", "room.environment", "offers.apply", "invalid.action",
     "", "ROOM.CHECKOUT", "room.checkout ", "room", "offers.apply.all"}

InitAllowlist ==
    /\ InitMemory
    /\ text_in = <<>>
    /\ route_out = "none"
    /\ fn_args = NoArgs
    /\ fn_log = <<>>
    /\ InitShared

\* one call of allowlist
AllowlistCall(action) ==
    /\ Len(fn_log) < MaxFnCalls
    /\ fn_log' = Append(fn_log,
                        [fn |-> "allowlist", action |-> action,
                         value |-> Ok(Allowlist(ALLOWED_ACTIONS, action))])
    /\ UNCHANGED <<text_in, route_out, fn_args>>
    /\ UNCHANGED memVars
    /\ UNCHANGED sharedVars

\* one call of the dependency that require_allowlist returns
RequireAllowlistCall(action) ==
    /\ Len(fn_log) < MaxFnCalls
    /\ fn_log' = Append(fn_log,
                        [fn |-> "require_allowlist", action |-> action,
                         value |-> RequireAllowlist(ALLOWED_ACTIONS, action)])
    /\ UNCHANGED <<text_in, route_out, fn_args>>
    /\ UNCHANGED memVars
    /\ UNCHANGED sharedVars

NextAllowlist ==
    \/ \E action \in ActionStrings : AllowlistCall(action)
    \/ \E action \in ActionStrings : RequireAllowlistCall(action)

SpecAllowlist == InitAllowlist /\ [][NextAllowlist]_vars

-----------------------------------------------------------------------------
(* shared/telemetry.py: telemetry, get_metrics and reset_metrics called    *)
(* from concurrent threads.  Each of them runs under `with _lock`.         *)

\* telemetry.py:58: the events kept in memory
EventCap == 1000

\* the number of telemetry calls in one run
MaxEvents == 2

\* the number of events already logged at the start
TelemetryPrefill == 999

Digits == <<"0", "1", "2", "3", "4", "5", "6", "7", "8", "9">>

\* f"status_{event['status'] // 100}xx", for a status below 1000
StatusCategory(status) == "status_" \o Digits[(status \div 100) + 1] \o "xx"

\* _counters[key] += 1 on a defaultdict(int)
Incr(counters, key) == PySet(counters, key, PyGet(counters, key, 0) + 1)

\* the store dropping the newest event when it is full
StoreEvent_PopNewest(events, event) ==
    LET appended == Append(events, event)
    IN IF Len(appended) > EventCap THEN SubSeq(appended, 1, Len(appended) - 1)
       ELSE appended

\* _events.append(event), then _events.pop(0) when more than 1000 are held
StoreEvent(events, event) ==
    LET appended == Append(events, event)
    IN IF Len(appended) > EventCap THEN Tail(appended) ELSE appended

\* the counter updates of telemetry
CountEvent(counters, event) ==
    LET event_type == PyGet(event, "event_type", "unknown")
        counted == Incr(Incr(counters, "event_" \o event_type), "total_events")
    IN IF "status" \in DOMAIN event
       THEN Incr(counted, StatusCategory(event.status))
       ELSE counted

\* the events passed to telemetry: with and without a status, and without an
\* event_type
TelemetryEvents ==
    { [event_type |-> "api_request", status |-> 200],
      [event_type |-> "api_request", status |-> 404],
      [event_type |-> "room_environment"],
      [status |-> 500] }

\* the i-th event logged before the start
PrefillEvent(i) == [event_type |-> "api_request", status |-> 200, timestamp |-> i]

\* the counters after n such events
PrefillCounters(n) ==
    IF n = 0 THEN <<>>
    ELSE [key \in {"event_api_request", "total_events", "status_2xx"} |-> n]

InitTelemetry ==
    /\ InitMemory
    /\ text_in = <<>>
    /\ route_out = "none"
    /\ fn_args = NoArgs
    /\ fn_log = <<>>
    /\ InitSecurity
    /\ InitThreads
    /\ \E n \in {0, TelemetryPrefill} :
          /\ _events = [i \in 1..n |-> PrefillEvent(i)]
          /\ logged = [i \in 1..n |-> PrefillEvent(i)]
          /\ _counters = PrefillCounters(n)
          /\ csv_rows = n
          /\ utc = n + 1

\* a thread calls telemetry(event) and enters `with _lock`
TelemetryAcquire(th, event) ==
    /\ tpc[th] = "idle"
    /\ _lock = "free"
    /\ tel_calls < MaxEvents
    /\ tel_calls' = tel_calls + 1
    /\ _lock' = th
    /\ tpc' = [tpc EXCEPT ![th] = "store"]
    /\ tev' = [tev EXCEPT ![th] = event]
    /\ UNCHANGED <<ALLOWED_ACTIONS, _events, _counters, csv_rows, utc, tel_out, metrics,
                   logged>>
    /\ UNCHANGED memVars
    /\ UNCHANGED fnVars

\* the thread stamps the event, stores it and updates the counters
TelemetryStore(th) ==
    /\ tpc[th] = "store"
    /\ LET event == PySet(tev[th], "timestamp", utc)
       IN /\ _events' = StoreEvent(_events, event)
          /\ logged' = Append(logged, event)
          /\ _counters' = CountEvent(_counters, event)
          /\ tev' = [tev EXCEPT ![th] = event]
    /\ utc' = utc + 1
    /\ tpc' = [tpc EXCEPT ![th] = "write"]
    /\ UNCHANGED <<ALLOWED_ACTIONS, _lock, csv_rows, tel_out, metrics, tel_calls>>
    /\ UNCHANGED memVars
    /\ UNCHANGED fnVars

\* the thread appends the CSV row, or the write raises and the except
\* clause prints a warning; the lock is released and the call returns
TelemetryWrite(th, written) ==
    /\ tpc[th] = "write"
    /\ csv_rows' = IF written THEN csv_rows + 1 ELSE csv_rows
    /\ _lock' = "free"
    /\ tpc' = [tpc EXCEPT ![th] = "idle"]
    /\ tev' = [tev EXCEPT ![th] = NoEvent]
    /\ tel_out' = [tel_out EXCEPT ![th] =
                      [raised |-> FALSE, written |-> written, event |-> tev[th]]]
    /\ UNCHANGED <<ALLOWED_ACTIONS, _events, _counters, utc, metrics, logged, tel_calls>>
    /\ UNCHANGED memVars
    /\ UNCHANGED fnVars

\* get_metrics; the field logged keeps the number of events stored since the
\* last reset when the call was made
GetMetrics ==
    /\ _lock = "free"
    /\ metrics' = [counters |-> _counters,
                   recent_events |-> IF Len(_events) > 0 THEN PySliceFrom(_events, -10)
                                     ELSE <<>>,
                   total_events |-> Len(_events),
                   logged |-> Len(logged)]
    /\ UNCHANGED <<ALLOWED_ACTIONS, _events, _counters, _lock, csv_rows, utc, tpc, tev,
                   tel_out, logged, tel_calls>>
    /\ UNCHANGED memVars
    /\ UNCHANGED fnVars

\* reset_metrics: the CSV file is not affected
ResetMetrics ==
    /\ _lock = "free"
    /\ _events' = <<>>
    /\ _counters' = <<>>
    /\ logged' = <<>>
    /\ UNCHANGED <<ALLOWED_ACTIONS, _lock, csv_rows, utc, tpc, tev, tel_out, metrics,
                   tel_calls>>
    /\ UNCHANGED memVars
    /\ UNCHANGED fnVars

NextTelemetry ==
    \/ \E th \in Threads, event \in TelemetryEvents : TelemetryAcquire(th, event)
    \/ \E th \in Threads : TelemetryStore(th)
    \/ \E th \in Threads, written \in BOOLEAN : TelemetryWrite(th, written)
    \/ GetMetrics
    \/ ResetMetrics

SpecTelemetry == InitTelemetry /\ [][NextTelemetry]_vars

-----------------------------------------------------------------------------
(* The voice and video endpoints of api/concierge.py: POST /chat/voice and *)
(* POST /chat/video                                                        *)

\* the number of voice and video requests in a behaviour
MaxMediaCalls == 1

\* the text the voice handler passes on in place of a transcription
simulated_voice_message ==
    << "I","'","d"," ","l","i","k","e"," ","t","o"," ","o","r","d","e",
       "r"," ","r","o","o","m"," ","s","e","r","v","i","c","e"," ","a",
       "n","d"," ","g","e","t"," ","s","o","m","e"," ","r","e","c","o",
       "m","m","e","n","d","a","t","i","o","n","s"," ","f","o","r"," ",
       "l","o","c","a","l"," ","d","i","n","i","n","g","." >>

\* the text the video handler passes on in place of an analysis
simulated_video_message ==
    << "I","'","m"," ","l","o","o","k","i","n","g"," ","f","o","r"," ",
       "s","o","m","e"," ","r","e","l","a","x","a","t","i","o","n"," ",
       "a","c","t","i","v","i","t","i","e","s"," ","a","n","d"," ","w",
       "e","l","l","n","e","s","s"," ","s","e","r","v","i","c","e","s",
       "." >>

\* the list random.choice draws from in detect_audio_emotion
AudioEmotions == {"joy", "neutral", "stress", "excitement"}

\* the list random.choice draws from in detect_vision_emotion
VisionEmotions == {"joy", "neutral", "sadness", "surprise"}

\* random.uniform(0.6, 0.9), in tenths
AudioConfidences == 6..9

\* random.uniform(0.7, 0.95), in tenths: 9 stands for every draw from 0.9 up
VisionConfidences == 7..9

\* EmotionAI.detect_audio_emotion; detected_emotion and confidence are the
\* two random draws
DetectAudioEmotion(detected_emotion, confidence, ts) ==
    [emotion |-> detected_emotion,
     intensity |-> DetermineIntensity(confidence),
     confidence |-> confidence,
     context |-> [str |-> "audio"],
     suggestions |-> GenerateEmotionSuggestions(detected_emotion),
     timestamp |-> ts]

\* EmotionAI.detect_vision_emotion
DetectVisionEmotion(detected_emotion, confidence, ts) ==
    [emotion |-> detected_emotion,
     intensity |-> DetermineIntensity(confidence),
     confidence |-> confidence,
     context |-> [str |-> "vision"],
     suggestions |-> GenerateEmotionSuggestions(detected_emotion),
     timestamp |-> ts]

\* the body both handlers return: the fields of the response to the
\* simulated message, and emotion_detected from the audio or vision result
MediaBody(response, emotion_result, ts) ==
    [message |-> response.message,
     personality |-> response.personality,
     service_type |-> response.service_type,
     suggestions |-> response.suggestions,
     proactive_actions |-> response.proactive_actions,
     emotion_detected |-> [emotion |-> emotion_result.emotion,
                           intensity |-> emotion_result.intensity,
                           confidence |-> emotion_result.confidence],
     follow_up_questions |-> response.follow_up_questions,
     requires_human |-> response.requires_human,
     timestamp |-> ts]

\* the part the two handlers share: process_guest_message runs on the
\* simulated message (text emotion, router, enum lookup, synthesis, memory
\* update), then the body is built; an exception is answered with 500
MediaChat(op, g, personality, message, emotion_result) ==
    /\ calls' = calls + 1
    /\ LET user == User(g, personality)
           text_emotion == DetectTextEmotion(message, None, now)
           looked_up == ConciergePersonality(user.preferred_ai_personality)
           response == GenerateResponse(message, user, looked_up.value,
                                        ClassifyServiceType(message), text_emotion)
           updated == UpdateConversationMemory(
                          conversation_memory, user.id, message, response, now)
           failed == looked_up.raised \/ updated.raised
       IN /\ conversation_memory' =
                IF failed THEN conversation_memory ELSE updated.value
          /\ appendLog' =
                IF failed THEN appendLog
                ELSE [appendLog EXCEPT ![user.id] =
                         Append(@, ConversationTurn(message, response, now))]
          /\ completed' =
                IF failed THEN completed
                ELSE [completed EXCEPT ![user.id] = @ + 1]
          /\ now' = IF looked_up.raised THEN now ELSE now + 1
          /\ lastOp' = [op |-> op, user_id |-> user.id, arg |-> message,
                        status |-> IF failed THEN 500 ELSE 200,
                        result |-> IF looked_up.raised THEN looked_up.value
                                   ELSE IF updated.raised THEN updated.value
                                   ELSE MediaBody(response, emotion_result, now),
                        fault |-> FALSE]
    /\ UNCHANGED <<pc, req, emo>>
    /\ UNCHANGED fnVars
    /\ UNCHANGED sharedVars

\* POST /chat/voice
chat_with_concierge_voice(g, personality, detected_emotion, confidence) ==
    /\ calls < MaxMediaCalls
    /\ MediaChat("voice", g, personality, simulated_voice_message,
                 DetectAudioEmotion(detected_emotion, confidence, now))

\* POST /chat/video
chat_with_concierge_video(g, personality, detected_emotion, confidence) ==
    /\ calls < MaxMediaCalls
    /\ MediaChat("video", g, personality, simulated_video_message,
                 DetectVisionEmotion(detected_emotion, confidence, now))

NextMedia ==
    \/ \E g \in Guests, p \in ChatPersonalities, e \in AudioEmotions,
          c \in AudioConfidences : chat_with_concierge_voice(g, p, e, c)
    \/ \E g \in Guests, p \in ChatPersonalities, e \in VisionEmotions,
          c \in VisionConfidences : chat_with_concierge_video(g, p, e, c)

SpecMedia == Init /\ [][NextMedia]_vars

-----------------------------------------------------------------------------
(* Properties of the conversation memory                                   *)

\* the last n elements of s, all of s when it has fewer
LastN(s, n) == SubSeq(s, Len(s) - Min(n, Len(s)) + 1, Len(s))

\* guest ids beyond the ones that send requests
AnyGuestIds == Guests \cup {0, 3}

\* C1: in every reachable state every guest key of conversation_memory maps
\* to a history of at most 20 turns.
C1_HistoryAtMost20 ==
    \A g \in DOMAIN conversation_memory : Len(conversation_memory[g]) <= 20

\* C1 witness: a /chat call has just been answered for a guest who has had
\* more than 20 turns appended, and 20 are stored.
C1_Witness ==
    /\ lastOp.op = "chat"
    /\ lastOp.status = 200
    /\ Len(appendLog[lastOp.user_id]) > 20
    /\ Len(History(conversation_memory, lastOp.user_id)) = 20

\* C2: once N > 20 turns have been appended for a guest with no clear in
\* between, get(guest, N) returns exactly the 20 most recently appended turns
\* in append order, and none of the N - 20 oldest.
C2_FifoEviction ==
    \A g \in Guests :
        LET N == Len(appendLog[g])
            got == GetConversationHistory(conversation_memory, g, N)
        IN N > 20 =>
            /\ ~got.raised
            /\ got.value.body.conversation_history = LastN(appendLog[g], 20)
            /\ \A i \in 1..(N - 20), j \in 1..Len(got.value.body.conversation_history) :
                   got.value.body.conversation_history[j] # appendLog[g][i]

\* C2 witness: GET /conversation/history with limit N was just answered with
\* 20 turns for a guest who has had N > 20 turns appended.
C2_Witness ==
    /\ lastOp.op = "history"
    /\ lastOp.status = 200
    /\ lastOp.arg = Len(appendLog[lastOp.user_id])
    /\ lastOp.arg > 20
    /\ Len(lastOp.result.conversation_history) = 20
    /\ lastOp.result.conversation_history[20] = appendLog[lastOp.user_id][lastOp.arg]

\* C3 (as claimed): for every limit >= 0, limit = 0 included, the history
\* handler returns exactly the last min(limit, len(history)) stored turns, so
\* never more than limit.
C3_GetReturnsLastLimit ==
    (lastOp.op = "history" /\ lastOp.arg >= 0) =>
        /\ lastOp.status = 200
        /\ Len(lastOp.result.conversation_history) <= lastOp.arg
        /\ lastOp.result.conversation_history =
               LastN(History(conversation_memory, lastOp.user_id), lastOp.arg)

\* C4: whatever the interleaving of /chat calls, a guest's history is exactly
\* the last min(k, 20) of the turns of the k calls answered since the history
\* was last empty, one turn per call, in the order of their memory updates.
C4_NoLostUpdate ==
    \A g \in Guests :
        LET k == completed[g] IN
        /\ Len(appendLog[g]) = k
        /\ Len(History(conversation_memory, g)) = Min(k, 20)
        /\ History(conversation_memory, g) = LastN(appendLog[g], Min(k, 20))

\* C4 witness: a call was just answered that had already passed its emotion
\* detection when the previous turn of the same guest was appended (the two
\* calls overlapped), and both turns are stored.
C4_Witness ==
    /\ lastOp.op = "chat"
    /\ lastOp.status = 200
    /\ LET h == History(conversation_memory, lastOp.user_id) IN
        /\ Len(h) >= 2
        /\ h[Len(h) - 1].timestamp > Prefill
        /\ lastOp.result.emotion_detected.timestamp <= h[Len(h) - 1].timestamp
        /\ h[Len(h)].user_message # h[Len(h) - 1].user_message

\* C5: a step that ends a /chat call without a response (the personality is
\* rejected, or the task is cancelled) leaves conversation_memory as it was,
\* and a task changes the memory only in the step that returns its response.
C5_FailedCallLeavesMemory ==
    [][\A t \in Tasks :
          /\ (pc[t] # "idle" /\ pc'[t] = "idle" /\ lastOp'.status # 200)
                => conversation_memory' = conversation_memory
          /\ (pc[t] # pc'[t] /\ conversation_memory' # conversation_memory)
                => (pc[t] = "generate" /\ pc'[t] = "idle" /\ lastOp'.status = 200)
      ]_vars

\* C5 witness: a /chat call of a guest with no stored history was just
\* answered 500 because its personality was rejected, and the guest still
\* has no key.
C5_Witness ==
    /\ lastOp.op = "chat"
    /\ lastOp.status = 500
    /\ lastOp.result = "ValueError"
    /\ lastOp.user_id \notin DOMAIN conversation_memory

\* C6: clear removes the guest's key, does not fail whether or not the guest
\* has a history, leaves the same memory when repeated, and a get after it
\* returns the empty sequence.
C6_ClearIdempotent ==
    /\ \A g \in AnyGuestIds :
          LET once == ClearConversationHistory(conversation_memory, g)
              twice == ClearConversationHistory(once.value.memory, g)
          IN /\ ~once.raised
             /\ g \notin DOMAIN once.value.memory
             /\ \A h \in DOMAIN conversation_memory :
                   h # g => /\ h \in DOMAIN once.value.memory
                            /\ once.value.memory[h] = conversation_memory[h]
             /\ ~twice.raised
             /\ twice.value.memory = once.value.memory
             /\ \A limit \in Limits :
                   GetConversationHistory(once.value.memory, g, limit)
                       .value.body.conversation_history = <<>>
    /\ lastOp.op = "clear" =>
          /\ lastOp.status = 200
          /\ lastOp.user_id \notin DOMAIN conversation_memory

\* C6 witness: in a run that began with 20 stored turns of guest 1 and made
\* no /chat call, a clear of guest 1 was just answered that found nothing
\* stored: guest 1 was cleared a second time.
C6_Witness ==
    /\ lastOp.op = "clear"
    /\ lastOp.status = 200
    /\ lastOp.user_id = 1
    /\ lastOp.arg = 0
    /\ calls = 0
    /\ now = Prefill + 1

\* C7: in every step a guest's history is unchanged, or removed by a clear of
\* that guest, or the old history with one turn appended and zero or more of
\* its oldest turns dropped; the turns that stay keep content and order.
C7_AppendEvictOnly ==
    [][\A g \in Guests :
          LET old == History(conversation_memory, g)
              new == History(conversation_memory', g)
          IN \/ new = old
             \/ /\ g \notin DOMAIN conversation_memory'
                /\ lastOp'.op = "clear"
                /\ lastOp'.user_id = g
             \/ /\ Len(new) >= 1
                /\ \E k \in 0..Len(old) :
                      SubSeq(new, 1, Len(new) - 1) = SubSeq(old, k + 1, Len(old))
      ]_vars

\* C7 witness: two turns were appended to a full history, so the two oldest
\* turns are gone and the rest moved up in order.
C7_Witness ==
    \E g \in Guests :
        /\ Len(appendLog[g]) = Prefill + 2
        /\ Len(History(conversation_memory, g)) = 20
        /\ conversation_memory[g][1] = appendLog[g][Prefill - 17]
        /\ conversation_memory[g][20] = appendLog[g][Prefill + 2]

\* C8: append, get and clear raise for no guest id, and for a guest id with
\* no stored history get returns the empty sequence and leaves
\* conversation_memory without a key for it.
C8_MemoryOpsNeverRaise ==
    /\ \A g \in AnyGuestIds :
          /\ \A limit \in Limits :
                LET got == GetConversationHistory(conversation_memory, g, limit)
                IN /\ ~got.raised
                   /\ g \notin DOMAIN conversation_memory =>
                         /\ got.value.body.conversation_history = <<>>
                         /\ got.value.memory = conversation_memory
          /\ ~ClearConversationHistory(conversation_memory, g).raised
          /\ \A m \in MessageTexts :
                ~UpdateConversationMemory(
                     conversation_memory, g, m,
                     SequentialResponse(m, User(g, "friendly"), now), now).raised
    /\ lastOp.op \in {"history", "clear"} => lastOp.status = 200
    /\ (lastOp.op = "chat" /\ lastOp.status = 500) => lastOp.result = "ValueError"

\* C8 witness: GET /conversation/history was just answered 200 with the empty
\* sequence for a guest with no key, after turns were stored for another.
C8_Witness ==
    /\ lastOp.op = "history"
    /\ lastOp.status = 200
    /\ lastOp.user_id \notin DOMAIN conversation_memory
    /\ lastOp.result.conversation_history = <<>>
    /\ lastOp.result.total_messages = 0
    /\ DOMAIN conversation_memory # {}

-----------------------------------------------------------------------------
(* Properties of the router                                                *)

\* the precedence list of the router as the design states it
RoutePrecedence ==
    << <<"room_service", room_service_words>>, <<"dining", dining_words>>,
       <<"wellness", wellness_words>>, <<"transportation", transportation_words>>,
       <<"entertainment", entertainment_words>>, <<"business", business_words>>,
       <<"emergency", emergency_words>> >>

\* word occurs in text at some offset, letters compared without case
MatchesIgnoringCase(word, text) ==
    \E i \in 0..(Len(text) - Len(word)) :
        \A j \in 1..Len(word) : lower_char(text[i + j]) = lower_char(word[j])

\* the positions of the precedence list with a keyword matching the text
MatchingCategories(text) ==
    {i \in 1..Len(RoutePrecedence) :
        \E k \in 1..Len(RoutePrecedence[i][2]) :
            MatchesIgnoringCase(RoutePrecedence[i][2][k], text)}

FirstMatchingCategory(text) ==
    IF MatchingCategories(text) = {} THEN "general"
    ELSE RoutePrecedence[CHOOSE i \in MatchingCategories(text) :
                            \A j \in MatchingCategories(text) : i <= j][1]

\* C9: for every text the router returns exactly one category: the first of
\* the precedence list with a case-insensitive substring match, GENERAL when
\* there is none; a match in a later category never overrides an earlier one.
C9_FirstMatchWins ==
    route_out # "none" =>
        /\ route_out \in ServiceTypeValues
        /\ route_out = FirstMatchingCategory(text_in)

\* C9 witness: "HELP Room" holds an emergency keyword and, later in the text
\* and in another case, a room-service keyword; it was routed to ROOM_SERVICE.
C9_Witness ==
    /\ text_in = <<"H","E","L","P"," ","R","o","o","m">>
    /\ route_out = "room_service"

\* C10 (as claimed): "I am so stressed about tomorrow's meeting" is routed to
\* GENERAL, not to BUSINESS.
C10_ScenarioARoutesGeneral ==
    (text_in = ScenarioA /\ route_out # "none") =>
        (route_out = "general" /\ route_out # "business")

\* C10 (amended): "I am so stressed about tomorrow's meeting" is routed to
\* BUSINESS, because it holds the business keyword "meeting" and no keyword
\* of an earlier category.
C10_ScenarioARoutesBusiness ==
    (text_in = ScenarioA /\ route_out # "none") =>
        /\ route_out = "business"
        /\ MatchingCategories(text_in) = {6}

\* C10 witness: the router has returned BUSINESS for the scenario's message.
C10_Witness ==
    /\ text_in = ScenarioA
    /\ route_out = "business"

-----------------------------------------------------------------------------
(* Properties of the escalation policy and the action generator            *)

\* the keywords of the complex-request rule as the design lists them
ComplexRequestWords ==
    { <<"c","o","m","p","l","a","i","n","t">>, <<"r","e","f","u","n","d">>,
      <<"m","a","n","a","g","e","r">>, <<"s","u","p","e","r","v","i","s","o","r">>,
      <<"l","e","g","a","l">>, <<"m","e","d","i","c","a","l">> }

\* the three escalation rules joined by OR
EscalationRules(message, emotion_result, service_type) ==
    \/ service_type = "emergency"
    \/ /\ ~IsNone(emotion_result)
       /\ emotion_result.emotion \in {"anger", "frustration"}
       /\ emotion_result.intensity \in {"high", "very_high"}
    \/ \E w \in ComplexRequestWords : MatchesIgnoringCase(w, message)

\* C11: for every message, emotion result (absent included) and service
\* category, requiresHuman returns a boolean, true exactly when the category
\* is EMERGENCY, or the emotion is ANGER or FRUSTRATION with intensity HIGH or
\* VERY_HIGH, or the message holds one of the six complex-request keywords.
C11_RequiresHumanIffRule ==
    \A i \in DOMAIN fn_log :
        fn_log[i].fn = "requires_human" =>
            /\ fn_log[i].value \in BOOLEAN
            /\ fn_log[i].value =
                   EscalationRules(text_in, fn_args.emotion_result, fn_args.service_type)

\* C11 witness: the message of scenario B, with no emotion result and a
\* category that is not EMERGENCY, was answered true.
C11_Witness ==
    /\ text_in = ScenarioB
    /\ IsNone(fn_args.emotion_result)
    /\ fn_args.service_type = "general"
    /\ \E i \in DOMAIN fn_log :
          fn_log[i].fn = "requires_human" /\ fn_log[i].value = TRUE

\* the names of the actions of a list, in order
ActionNames(actions) == [i \in DOMAIN actions |-> actions[i].action]

\* the action names of the three emotion clusters
ClusterActionNames ==
    { {"adjust_lighting", "suggest_wellness", "adjust_temperature"},
      {"suggest_entertainment", "offer_comfort_food"},
      {"suggest_premium_services", "recommend_activities"} }

\* C20: the action generator returns the list adjust_lighting=dim,
\* suggest_wellness, adjust_temperature for STRESS or ANXIETY, a list of two
\* actions for SADNESS, a list of two other actions for JOY or EXCITEMENT, and
\* the empty list for every other emotion and for an absent emotion result; a
\* returned list never holds actions of two clusters.
C20_ActionsPerCluster ==
    \A i \in DOMAIN fn_log :
        fn_log[i].fn = "proactive_actions" =>
            LET actions == fn_log[i].value
                e == fn_args.emotion_result
            IN /\ IF IsNone(e) THEN actions = <<>>
                  ELSE IF e.emotion \in {"stress", "anxiety"} THEN
                      /\ ActionNames(actions) =
                           <<"adjust_lighting", "suggest_wellness", "adjust_temperature">>
                      /\ actions[1].value = "dim"
                  ELSE IF e.emotion = "sadness" THEN
                      ActionNames(actions) =
                          <<"suggest_entertainment", "offer_comfort_food">>
                  ELSE IF e.emotion \in {"joy", "excitement"} THEN
                      ActionNames(actions) =
                          <<"suggest_premium_services", "recommend_activities">>
                  ELSE actions = <<>>
               /\ Cardinality({c \in ClusterActionNames :
                                 \E j \in DOMAIN actions : actions[j].action \in c}) <= 1
               /\ \A j \in DOMAIN actions :
                      DOMAIN actions[j] = {"action", "value", "reason"}

\* C20 witness: the generator answered three actions for an ANXIETY result.
C20_Witness ==
    /\ ~IsNone(fn_args.emotion_result)
    /\ fn_args.emotion_result.emotion = "anxiety"
    /\ \E i \in DOMAIN fn_log :
          fn_log[i].fn = "proactive_actions" /\ Len(fn_log[i].value) = 3

-----------------------------------------------------------------------------
(* Properties of the responses of POST /chat                               *)

\* C12: every response process_guest_message returns whose service_type
\* is EMERGENCY has requires_human true, whatever emotion was detected and
\* whatever else the message says.
C12_EmergencyRequiresHuman ==
    (lastOp.op = "chat" /\ lastOp.status = 200) =>
        (lastOp.result.service_type = "emergency" => lastOp.result.requires_human = TRUE)

\* C12 witness: "Help", a message with no emotion keyword and no
\* complex-request keyword, was answered as EMERGENCY with requires_human.
C12_Witness ==
    /\ lastOp.op = "chat"
    /\ lastOp.status = 200
    /\ lastOp.arg = <<"H","e","l","p">>
    /\ lastOp.result.service_type = "emergency"
    /\ lastOp.result.emotion_detected.emotion = "neutral"
    /\ lastOp.result.requires_human = TRUE

\* C18: a request whose guest profile carries a personality that is none of
\* the ten declared values does not fail: when its emotion detection has
\* returned, the call goes on to compose a response (as PROFESSIONAL) and no
\* error is answered.
C18_InvalidPersonalityFallsBack ==
    [][\A t \in Tasks :
          (/\ pc[t] = "detect"
           /\ pc'[t] # "detect"
           /\ req[t].user.preferred_ai_personality \notin ConciergePersonalityValues)
          => (pc'[t] = "generate" /\ lastOp' = lastOp)]_vars

\* the message of the fallback response of ConciergeAI._generate_openai_response
ApologyMessage ==
    "I apologize, but I'm having trouble processing your request right now. How else can I assist you?"

\* C19: when an exception arose while the response text was composed, the
\* caller is answered 200 with a response that carries the apology message
\* and requires_human = FALSE.
C19_FaultGivesApology ==
    (lastOp.op = "chat" /\ lastOp.fault) =>
        /\ lastOp.status = 200
        /\ lastOp.result.message = ApologyMessage
        /\ lastOp.result.requires_human = FALSE

-----------------------------------------------------------------------------
(* Properties of the emotion classifier                                    *)

\* the emotions that have keywords, in the order of their declaration
EmotionOrder == <<"joy", "sadness", "anger", "fear", "stress", "excitement">>

\* word occurs at some offset of a text already folded to lower case
OccursIn(word, folded) ==
    \E i \in 0..(Len(folded) - Len(word)) :
        \A j \in 1..Len(word) : folded[i + j] = word[j]

\* per emotion with keywords, the number of its keywords found in the text,
\* whatever the case of the text's letters
MatchScores(text) ==
    LET folded == [i \in 1..Len(text) |-> lower_char(text[i])]
    IN [k \in DOMAIN EmotionOrder |->
           Cardinality({i \in 1..Len(emotion_keywords[k][2]) :
                           OccursIn(emotion_keywords[k][2][i], folded)})]

\* the highest of the scores
TopScore(scores) ==
    CHOOSE s \in 0..8 :
        /\ \A k \in DOMAIN scores : scores[k] <= s
        /\ \E k \in DOMAIN scores : scores[k] = s

\* the highest score any emotion reaches on the text
WinningScore(text) == TopScore(MatchScores(text))

\* the results the classifier returned in this run
Classified == {fn_log[i].value : i \in {j \in DOMAIN fn_log :
                                          fn_log[j].fn = "detect_text_emotion"}}

\* C13: on a text with a keyword, the classifier selects the emotion with
\* the highest score, and of the emotions that share the highest score the
\* one declared earliest in JOY, SADNESS, ANGER, FEAR, STRESS, EXCITEMENT.
C13_HighestScoreEarliestWins ==
    Classified # {} =>
        LET scores == MatchScores(text_in)
            top == TopScore(scores)
        IN \A r \in Classified :
              top >= 1 =>
                  \E k \in DOMAIN EmotionOrder :
                      /\ r.emotion = EmotionOrder[k]
                      /\ scores[k] = top
                      /\ \A j \in 1..(k - 1) : scores[j] < top

\* C13 witness: "excited", a keyword of JOY and of EXCITEMENT and the only
\* keyword of the text, was classified JOY.
C13_Witness ==
    /\ text_in = <<"e","x","c","i","t","e","d">>
    /\ \E r \in Classified : r.emotion = "joy"

\* C14: for a winning score s >= 1 the confidence is min(0.9, 0.5 + 0.1 s),
\* held in tenths, and the intensity is MEDIUM for s = 1, HIGH for s = 2 or
\* 3 and VERY_HIGH for s >= 4; the confidence never exceeds 0.9.
C14_ConfidenceAndIntensity ==
    Classified # {} =>
        LET s == WinningScore(text_in)
        IN \A r \in Classified :
              /\ r.confidence <= 9
              /\ s >= 1 =>
                    /\ r.confidence = Min(9, 5 + s)
                    /\ r.intensity = IF s = 1 THEN "medium"
                                     ELSE IF s \in {2, 3} THEN "high"
                                     ELSE "very_high"

\* C14 witness: a text with five keywords of one emotion was classified
\* with confidence 0.9 and intensity VERY_HIGH, and so the cap applied.
C14_Witness ==
    /\ \E r \in Classified : r.confidence = 9 /\ r.intensity = "very_high"
    /\ WinningScore(text_in) = 5

\* C15: a text with no emotion keyword, the empty text included, is
\* classified NEUTRAL with confidence 0.5, intensity MEDIUM and no
\* suggestions.
C15_NoKeywordIsNeutral ==
    Classified # {} =>
        LET s == WinningScore(text_in)
        IN \A r \in Classified :
              s = 0 =>
                  /\ r.emotion = "neutral"
                  /\ r.confidence = 5
                  /\ r.intensity = "medium"
                  /\ r.suggestions = <<>>

\* C15 witness: the empty text was classified NEUTRAL.
C15_Witness ==
    /\ text_in = <<>>
    /\ \E r \in Classified : r.emotion = "neutral" /\ r.suggestions = <<>>

\* the calls of one function on the same arguments, among the calls logged
SameCall(log, i, j) ==
    /\ log[i].fn = log[j].fn
    /\ log[i].fn = "detect_text_emotion" => log[i].value.context = log[j].value.context

SansTimestamp(r) ==
    [emotion |-> r.emotion, intensity |-> r.intensity, confidence |-> r.confidence,
     context |-> r.context, suggestions |-> r.suggestions]

-----------------------------------------------------------------------------
(* Properties of the template response                                     *)

\* the personalities with no greeting template of their own
UnmappedPersonalities == {"formal", "casual", "efficient", "conversational"}

\* C17: the greeting composed for FORMAL, CASUAL, EFFICIENT or
\* CONVERSATIONAL is equal to the greeting composed for PROFESSIONAL with the
\* same guest name.
C17_UnmappedGreetingIsProfessional ==
    \A i, j \in DOMAIN fn_log :
        (/\ fn_log[i].personality \in UnmappedPersonalities
         /\ fn_log[j].personality = "professional")
        => fn_log[i].value[1] = fn_log[j].value[1]

-----------------------------------------------------------------------------
(* Properties of the follow-up question generator                          *)

\* the first two canned questions of the three categories that have any
FirstTwoQuestions(service_type) ==
    IF service_type = "room_service" THEN
        <<"Would you like me to schedule housekeeping for a specific time?",
          "Is there anything specific you'd like me to arrange for your room?">>
    ELSE IF service_type = "dining" THEN
        <<"Do you have any dietary restrictions or preferences?",
          "What type of cuisine are you in the mood for?">>
    ELSE IF service_type = "wellness" THEN
        <<"What type of wellness experience are you looking for?",
          "Do you have any specific health goals or preferences?">>
    ELSE <<>>

\* C21: the follow-up generator returns the first two canned questions for
\* ROOM_SERVICE, DINING and WELLNESS and the empty list for each of the other
\* seven categories; a result never has more than two entries, and calls
\* with different emotion results return the same list.
C21_FollowUpFirstTwo ==
    /\ \A i \in DOMAIN fn_log :
          /\ Len(fn_log[i].value) <= 2
          /\ fn_log[i].value = FirstTwoQuestions(fn_args.service_type)
          /\ fn_args.service_type \notin {"room_service", "dining", "wellness"}
                => fn_log[i].value = <<>>
    /\ \A i, j \in DOMAIN fn_log : fn_log[i].value = fn_log[j].value

\* C21 witness: the generator was called for DINING with two different
\* emotion results and answered two questions.
C21_Witness ==
    /\ fn_args.service_type = "dining"
    /\ \E i, j \in DOMAIN fn_log :
          /\ fn_log[i].emotion_result # fn_log[j].emotion_result
          /\ Len(fn_log[i].value) = 2

-----------------------------------------------------------------------------
(* Properties of the allowlist                                             *)

\* C22: allowlist(action) returns true exactly when action is one of
\* "room.checkout", "room.environment", "offers.apply", and no step changes
\* the set of allowed actions.
C22_AllowlistExactlyThree ==
    [][/\ ALLOWED_ACTIONS' = ALLOWED_ACTIONS
       /\ \A i \in DOMAIN fn_log' :
             fn_log'[i].fn = "allowlist" =>
                 /\ ~fn_log'[i].value.raised
                 /\ fn_log'[i].value.value =
                        (fn_log'[i].action \in
                            {"room.checkout", "room.environment", "offers.apply"})]_vars

\* C22 witness: allowlist answered true for "offers.apply" and false for
\* "invalid.action".
C22_Witness ==
    /\ \E i \in DOMAIN fn_log :
          /\ fn_log[i].fn = "allowlist"
          /\ fn_log[i].action = "offers.apply"
          /\ fn_log[i].value.value = TRUE
    /\ \E i \in DOMAIN fn_log :
          /\ fn_log[i].fn = "allowlist"
          /\ fn_log[i].action = "invalid.action"
          /\ fn_log[i].value.value = FALSE

-----------------------------------------------------------------------------
(* Properties of the telemetry store                                       *)

\* C23: the total_events value that get_metrics returns is the number of
\* events logged since the last reset_metrics, also when more than 1000 were
\* logged, and is the value of the counter 'total_events'.
C23_TotalEventsIsLoggedCount ==
    ~IsNone(metrics) =>
        /\ metrics.total_events = metrics.logged
        /\ metrics.total_events = PyGet(metrics.counters, "total_events", 0)

\* two dicts with the same keys and values
SameDict(a, b) == DOMAIN a = DOMAIN b /\ \A k \in DOMAIN a : a[k] = b[k]

\* C24: in every interleaving of telemetry calls of concurrent threads, when
\* a call has completed the event list holds at most 1000 events, which are
\* the most recently logged ones in the order of their logging; and a CSV
\* write that fails raises nothing to the caller and leaves the stored
\* events and the counters as the call had updated them.
C24_BoundedRecentAndWriteFailureSafe ==
    [][/\ _lock' = "free" =>
             /\ Len(_events') <= 1000
             /\ _events' = LastN(logged', 1000)
       /\ \A th \in Threads :
             (tpc[th] = "write" /\ tpc'[th] = "idle") =>
                 /\ ~tel_out'[th].raised
                 /\ _events' = _events
                 /\ SameDict(_counters', _counters)
                 /\ _events'[Len(_events')] = tel_out'[th].event
                 /\ PyGet(_counters', "total_events", 0) = Len(logged')]_vars

\* C24 witness: both threads have logged, the list holds 1000 events of
\* which the oldest was evicted, and the last CSV write failed.
C24_Witness ==
    /\ Len(_events) = 1000
    /\ Len(logged) > 1000
    /\ ~IsNone(tel_out["th1"])
    /\ ~IsNone(tel_out["th2"])
    /\ \E th \in Threads :
          /\ ~tel_out[th].written
          /\ tel_out[th].event = _events[1000]

-----------------------------------------------------------------------------
(* Properties of what POST /chat records                                   *)

\* C25: a process_guest_message call for guest g that returns a response
\* appends exactly one turn to the history of g (dropping the oldest turn of
\* a full history), and the turn holds the message of the call and the
\* message, the detected emotion and the service_type of that response.
C25_RecordedTurnMatchesResponse ==
    [][\A t \in Tasks :
          (pc[t] = "generate" /\ pc'[t] = "idle" /\ lastOp'.status = 200) =>
              LET g == lastOp'.user_id
                  response == lastOp'.result
                  before == History(conversation_memory, g)
                  after == History(conversation_memory', g)
                  turn == after[Len(after)]
              IN /\ g = req[t].user.id
                 /\ Len(after) >= 1
                 /\ after = LastN(Append(before, turn), 20)
                 /\ turn.user_message = req[t].message
                 /\ turn.ai_response = response.message
                 /\ turn.emotion_detected = response.emotion_detected.emotion
                 /\ turn.service_type = response.service_type]_vars

\* C25 witness: "I am furious" was answered for guest 2, whose history now
\* holds one turn, tagged anger.
C25_Witness ==
    /\ lastOp.op = "chat"
    /\ lastOp.status = 200
    /\ lastOp.user_id = 2
    /\ lastOp.arg = <<"I"," ","a","m"," ","f","u","r","i","o","u","s">>
    /\ Len(History(conversation_memory, 2)) = 1
    /\ conversation_memory[2][1].emotion_detected = "anger"

\* C26: in every interleaving, a step changes the stored history of a guest
\* B, or the presence of B's key, only when it completes a /chat call of B or
\* is a get or clear request of B: no operation for another guest A changes
\* what is stored for B.
C26_GuestIsolation ==
    [][\A b \in AnyGuestIds :
          (\/ History(conversation_memory', b) # History(conversation_memory, b)
           \/ (b \in DOMAIN conversation_memory') # (b \in DOMAIN conversation_memory))
          => \/ \E t \in Tasks :
                   pc[t] = "generate" /\ pc'[t] = "idle" /\ req[t].user.id = b
             \/ lastOp'.op \in {"history", "clear"} /\ lastOp'.user_id = b]_vars

\* C26 witness: guest 2 has had a call answered and guest 1 has then cleared
\* their 20 turns, while guest 2's turn is still stored.
C26_Witness ==
    /\ lastOp.op = "clear"
    /\ lastOp.user_id = 1
    /\ lastOp.arg = 20
    /\ 1 \notin DOMAIN conversation_memory
    /\ Len(History(conversation_memory, 2)) = 1

-----------------------------------------------------------------------------
(* Properties of escalation in the whole pipeline                          *)

\* the text holds a keyword of EMERGENCY
HasEmergencyKeyword(text) ==
    \E k \in 1..Len(emergency_words) : MatchesIgnoringCase(emergency_words[k], text)

\* the text holds a keyword of a category that precedes EMERGENCY
HasEarlierKeyword(text) ==
    \E i \in 1..(Len(RoutePrecedence) - 1) :
        \E k \in 1..Len(RoutePrecedence[i][2]) :
            MatchesIgnoringCase(RoutePrecedence[i][2][k], text)

\* the anger rule of the escalation policy
AngerRule(emotion_result) ==
    /\ emotion_result.emotion \in {"anger", "frustration"}
    /\ emotion_result.intensity \in {"high", "very_high"}

\* the complex-request rule of the escalation policy
ComplexRule(text) == \E w \in ComplexRequestWords : MatchesIgnoringCase(w, text)

\* C27: the response to a message that holds an EMERGENCY keyword together
\* with a keyword of an earlier category is not routed to EMERGENCY, and its
\* requires_human is true only when the anger rule or the complex-request
\* rule fires.
C27_EmergencyKeywordShadowed ==
    (/\ lastOp.op = "chat"
     /\ lastOp.status = 200
     /\ HasEmergencyKeyword(lastOp.arg)
     /\ HasEarlierKeyword(lastOp.arg))
    => /\ lastOp.result.service_type # "emergency"
       /\ lastOp.result.requires_human =
              (AngerRule(lastOp.result.emotion_detected) \/ ComplexRule(lastOp.arg))

\* C27 witness: "emergency in my room" was answered as ROOM_SERVICE with
\* requires_human false.
C27_Witness ==
    /\ lastOp.op = "chat"
    /\ lastOp.status = 200
    /\ lastOp.arg = <<"e","m","e","r","g","e","n","c","y"," ","i","n"," ","m","y"," ","r","o","o","m">>
    /\ lastOp.result.service_type = "room_service"
    /\ lastOp.result.requires_human = FALSE

\* C28: in a response, the anger rule fires only when ANGER is the detected
\* emotion and at least two ANGER keywords matched; a message classified
\* ANGER on one keyword has confidence 0.6 and intensity MEDIUM and, with a
\* service other than EMERGENCY and no complex-request keyword, gets
\* requires_human false.
C28_AngerNeedsTwoKeywords ==
    (lastOp.op = "chat" /\ lastOp.status = 200) =>
        LET e == lastOp.result.emotion_detected
            n == MatchScores(lastOp.arg)[3]
        IN /\ AngerRule(e) => (e.emotion = "anger" /\ n >= 2)
           /\ (e.emotion = "anger" /\ n = 1) =>
                 /\ e.confidence = 6
                 /\ e.intensity = "medium"
                 /\ (lastOp.result.service_type # "emergency" /\ ~ComplexRule(lastOp.arg))
                       => lastOp.result.requires_human = FALSE

\* C28 witness: "I am furious", one ANGER keyword, was answered as GENERAL
\* with requires_human false.
C28_Witness ==
    /\ lastOp.op = "chat"
    /\ lastOp.status = 200
    /\ lastOp.arg = <<"I"," ","a","m"," ","f","u","r","i","o","u","s">>
    /\ lastOp.result.emotion_detected.emotion = "anger"
    /\ lastOp.result.service_type = "general"
    /\ lastOp.result.requires_human = FALSE

-----------------------------------------------------------------------------
(* The emotions the text classifier can return                             *)

\* C29: for every text the classifier returns one of JOY, SADNESS, ANGER,
\* FEAR, STRESS, EXCITEMENT, NEUTRAL, and never ANXIETY, FRUSTRATION,
\* SURPRISE, DISGUST or CONTENTMENT, so that no text reaches the ANXIETY or
\* FRUSTRATION arm of the suggestion, action and escalation rules.
C29_TextEmotionsAreSeven ==
    \A r \in Classified :
        /\ r.emotion \in {"joy", "sadness", "anger", "fear", "stress", "excitement",
                          "neutral"}
        /\ r.emotion \notin {"anxiety", "frustration", "surprise", "disgust",
                             "contentment"}

\* C29 witness: "anxious" was classified FEAR and "frustrated" ANGER.
C29_Witness ==
    \E r \in Classified :
        \/ text_in = <<"a","n","x","i","o","u","s">> /\ r.emotion = "fear"
        \/ text_in = <<"f","r","u","s","t","r","a","t","e","d">> /\ r.emotion = "anger"

-----------------------------------------------------------------------------
(* Properties of the voice and video endpoints                             *)

\* the emotions _generate_proactive_actions answers with an action
ActionEmotions == {"stress", "anxiety", "sadness", "joy", "excitement"}

\* C30: in every response of the voice and video endpoints the reported
\* emotion_detected is consistent with the rest of the response:
\* proactive_actions is non-empty exactly when the reported emotion is
\* STRESS, ANXIETY, SADNESS, JOY or EXCITEMENT, and suggestions are those of
\* the reported emotion
C30_ReportedEmotionConsistent ==
    (lastOp.op \in {"voice", "video"} /\ lastOp.status = 200) =>
        LET body == lastOp.result
        IN /\ (Len(body.proactive_actions) > 0) <=>
                  (body.emotion_detected.emotion \in ActionEmotions)
           /\ body.suggestions =
                  GenerateEmotionSuggestions(body.emotion_detected.emotion)

====
